---- MODULE Spec2Model ----
(***************************************************************************)
(* Verification model of three components of the school platform backend:  *)
(*   - backend/rbac.py   role-based access control and its decorators      *)
(*   - backend/cache.py  Redis-backed cache manager and cached() decorator *)
(***************************************************************************)
EXTENDS Integers, Sequences, FiniteSets, TLC

(***************************************************************************)
(* backend/rbac.py                                                         *)
(***************************************************************************)

\* Python None (a missing current_user, a missing dict entry).
None == "None"

\* class Permission(str, Enum): the enumeration's values.
Permission ==
    {"create_user", "read_user", "update_user", "delete_user",
     "create_student", "read_student", "update_student", "delete_student",
     "enroll_student", "unenroll_student", "create_teacher",
     "read_teacher", "update_teacher", "delete_teacher", "assign_teacher",
     "create_class", "read_class", "update_class", "delete_class",
     "manage_class_enrollment", "create_subject", "read_subject",
     "update_subject", "delete_subject", "mark_attendance",
     "read_attendance", "update_attendance", "delete_attendance",
     "view_attendance_reports", "create_grade", "read_grade",
     "update_grade", "delete_grade", "view_grade_reports",
     "generate_report_card", "create_parent", "read_parent",
     "update_parent", "delete_parent", "link_parent_student",
     "create_notification", "read_notification", "update_notification",
     "delete_notification", "send_notification", "view_system_logs",
     "manage_system_settings", "backup_data", "restore_data",
     "view_analytics", "export_data", "generate_reports"}

\* class Resource(str, Enum), in declaration order (the iteration order of
\* RESOURCE_PERMISSIONS).
Resource ==
    <<"users", "students", "teachers", "classes", "subjects", "attendance", "grades", "parents", "notifications", "reports", "analytics", "system">>

\* class UserRole(str, Enum).
UserRole == {"student", "teacher", "parent", "admin"}

\* A role value that is no key of ROLE_PERMISSIONS, a permission name that is
\* no member of Permission and a resource that is no key of
\* RESOURCE_PERMISSIONS.
UnknownRole == "guest"
UnknownPermission == "not_a_permission"
UnknownResource == "not_a_resource"

\* ROLE_PERMISSIONS with the last entry of the admin set ("generate_reports")
\* left out.
ROLE_PERMISSIONS_admin_incomplete ==
    ("admin" :> {"create_user", "read_user", "update_user", "delete_user",
                    "create_student", "read_student", "update_student", "delete_student",
                    "enroll_student", "unenroll_student", "create_teacher",
                    "read_teacher", "update_teacher", "delete_teacher", "assign_teacher",
                    "create_class", "read_class", "update_class", "delete_class",
                    "manage_class_enrollment", "create_subject", "read_subject",
                    "update_subject", "delete_subject", "mark_attendance",
                    "read_attendance", "update_attendance", "delete_attendance",
                    "view_attendance_reports", "create_grade", "read_grade",
                    "update_grade", "delete_grade", "view_grade_reports",
                    "generate_report_card", "create_parent", "read_parent",
                    "update_parent", "delete_parent", "link_parent_student",
                    "create_notification", "read_notification", "update_notification",
                    "delete_notification", "send_notification", "view_system_logs",
                    "manage_system_settings", "backup_data", "restore_data",
                    "view_analytics", "export_data"}) @@
    ("teacher" :> {"read_student", "update_student", "read_teacher", "update_teacher",
                      "read_class", "manage_class_enrollment", "read_subject",
                      "mark_attendance", "read_attendance", "update_attendance",
                      "view_attendance_reports", "create_grade", "read_grade",
                      "update_grade", "delete_grade", "view_grade_reports",
                      "generate_report_card", "read_parent", "read_notification",
                      "send_notification", "view_analytics", "generate_reports"}) @@
    ("student" :> {"read_student", "update_student", "read_class", "read_attendance",
                      "read_grade", "view_grade_reports", "read_parent", "read_notification"}) @@
    ("parent" :> {"read_student", "read_class", "read_attendance",
                     "view_attendance_reports", "read_grade", "view_grade_reports",
                     "read_parent", "update_parent", "read_notification",
                     "send_notification"})


\* ROLE_PERMISSIONS: Dict[UserRole, Set[Permission]].
ROLE_PERMISSIONS ==
    ("admin" :> {"create_user", "read_user", "update_user", "delete_user",
                    "create_student", "read_student", "update_student", "delete_student",
                    "enroll_student", "unenroll_student", "create_teacher",
                    "read_teacher", "update_teacher", "delete_teacher", "assign_teacher",
                    "create_class", "read_class", "update_class", "delete_class",
                    "manage_class_enrollment", "create_subject", "read_subject",
                    "update_subject", "delete_subject", "mark_attendance",
                    "read_attendance", "update_attendance", "delete_attendance",
                    "view_attendance_reports", "create_grade", "read_grade",
                    "update_grade", "delete_grade", "view_grade_reports",
                    "generate_report_card", "create_parent", "read_parent",
                    "update_parent", "delete_parent", "link_parent_student",
                    "create_notification", "read_notification", "update_notification",
                    "delete_notification", "send_notification", "view_system_logs",
                    "manage_system_settings", "backup_data", "restore_data",
                    "view_analytics", "export_data", "generate_reports"}) @@
    ("teacher" :> {"read_student", "update_student", "read_teacher", "update_teacher",
                      "read_class", "manage_class_enrollment", "read_subject",
                      "mark_attendance", "read_attendance", "update_attendance",
                      "view_attendance_reports", "create_grade", "read_grade",
                      "update_grade", "delete_grade", "view_grade_reports",
                      "generate_report_card", "read_parent", "read_notification",
                      "send_notification", "view_analytics", "generate_reports"}) @@
    ("student" :> {"read_student", "update_student", "read_class", "read_attendance",
                      "read_grade", "view_grade_reports", "read_parent", "read_notification"}) @@
    ("parent" :> {"read_student", "read_class", "read_attendance",
                     "view_attendance_reports", "read_grade", "view_grade_reports",
                     "read_parent", "update_parent", "read_notification",
                     "send_notification"})

\* RESOURCE_PERMISSIONS: Dict[Resource, Set[Permission]].
RESOURCE_PERMISSIONS ==
    ("users" :> {"create_user", "read_user", "update_user", "delete_user"}) @@
    ("students" :> {"create_student", "read_student", "update_student", "delete_student",
                       "enroll_student", "unenroll_student"}) @@
    ("teachers" :> {"create_teacher", "read_teacher", "update_teacher", "delete_teacher",
                       "assign_teacher"}) @@
    ("classes" :> {"create_class", "read_class", "update_class", "delete_class",
                      "manage_class_enrollment"}) @@
    ("subjects" :> {"create_subject", "read_subject", "update_subject", "delete_subject"}) @@
    ("attendance" :> {"mark_attendance", "read_attendance", "update_attendance",
                         "delete_attendance", "view_attendance_reports"}) @@
    ("grades" :> {"create_grade", "read_grade", "update_grade", "delete_grade",
                     "view_grade_reports", "generate_report_card"}) @@
    ("parents" :> {"create_parent", "read_parent", "update_parent", "delete_parent",
                      "link_parent_student"}) @@
    ("notifications" :> {"create_notification", "read_notification", "update_notification",
                            "delete_notification", "send_notification"}) @@
    ("reports" :> {"view_analytics", "export_data", "generate_reports"}) @@
    ("analytics" :> {"view_analytics", "export_data"}) @@
    ("system" :> {"view_system_logs", "manage_system_settings", "backup_data",
                     "restore_data"})

VARIABLES
    role_permissions,      \* the module-level dict ROLE_PERMISSIONS at run time
    resource_permissions,  \* the module-level dict RESOURCE_PERMISSIONS at run time
    rbac_req,              \* the RBAC call being made: operation and arguments
    rbac_pc,               \* "call" before the operation has run, "returned" after
    rbac_result,           \* what the operation returned (or the HTTP outcome)
    cache_manager,         \* cache.py: the module-level _cache_manager
    store,                 \* the Redis server: full key -> stored bytes and expiry
    last_call,             \* cache.py: the last call made and its outcome
    clock,                 \* backup.py: what datetime.now() returns
    backup_dir,            \* the items of config.backup_dir: name -> kind, mtime
    backup_log,            \* the JSON array in backup_log.json
    s3_client,             \* whether S3Backup.s3_client is set
    s3_objects,            \* the keys of the objects in config.s3_bucket
    returned,              \* what each create call so far has returned
    database,              \* what the PostgreSQL database holds
    backup_call,           \* backup.py: the last call made and its outcome
    runs,                  \* backup.py: where each process making a backup is
    callers,               \* cache.py: where each concurrent wrapper call is
    model_cache,           \* utils.py: the ModelCache object's cache and access_times
    model_time             \* utils.py: what time.time() returned last

rbac_vars == <<role_permissions, resource_permissions, rbac_req, rbac_pc, rbac_result>>

cache_vars == <<cache_manager, store, last_call>>

backup_vars == <<clock, backup_dir, backup_log, s3_client, s3_objects, returned,
                 database, backup_call, runs>>

local_vars == <<callers, model_cache, model_time>>

vars == <<role_permissions, resource_permissions, rbac_req, rbac_pc, rbac_result,
          cache_manager, store, last_call,
          clock, backup_dir, backup_log, s3_client, s3_objects, returned,
          database, backup_call, runs, callers, model_cache, model_time>>

\* RBACService.get_user_permissions: ROLE_PERMISSIONS.get(user_role, set()).
get_user_permissions(user_role) ==
    IF user_role \in DOMAIN role_permissions
    THEN role_permissions[user_role]
    ELSE {}

\* has_permission without the membership test.
has_permission_always(user_role, permission) == TRUE

\* RBACService.has_permission.
has_permission(user_role, permission) ==
    LET user_permissions == get_user_permissions(user_role)
    IN  permission \in user_permissions

\* has_any_permission that looks at the first element only.
has_any_permission_first(user_role, permissions) ==
    LET user_permissions == get_user_permissions(user_role)
    IN  Len(permissions) > 0 /\ permissions[1] \in user_permissions

\* RBACService.has_any_permission: any(p in user_permissions for p in permissions).
has_any_permission(user_role, permissions) ==
    LET user_permissions == get_user_permissions(user_role)
    IN  \E i \in 1..Len(permissions) : permissions[i] \in user_permissions

\* RBACService.has_all_permissions: all(p in user_permissions for p in permissions).
has_all_permissions(user_role, permissions) ==
    LET user_permissions == get_user_permissions(user_role)
    IN  \A i \in 1..Len(permissions) : permissions[i] \in user_permissions

\* RBACService.get_resource_permissions: RESOURCE_PERMISSIONS.get(resource, set()).
get_resource_permissions(resource) ==
    IF resource \in DOMAIN resource_permissions
    THEN resource_permissions[resource]
    ELSE {}

\* can_access_resource that requires the role to hold every permission of the
\* resource.
can_access_resource_subset(user_role, resource) ==
    get_resource_permissions(resource) \subseteq get_user_permissions(user_role)

\* RBACService.can_access_resource.
can_access_resource(user_role, resource) ==
    LET user_permissions == get_user_permissions(user_role)
        resource_permissions_of == get_resource_permissions(resource)
    IN  (user_permissions \cap resource_permissions_of) # {}

\* RBACService.get_accessible_resources: the loop over
\* RESOURCE_PERMISSIONS.items() appending each accessible resource.
get_accessible_resources(user_role) ==
    SelectSeq(Resource, LAMBDA resource : can_access_resource(user_role, resource))

\* raise HTTPException(status_code=..., detail=...): the handler was not called.
HTTPException(status_code, detail) ==
    [status |-> status_code, body |-> detail, handler_calls |-> 0]

\* return await func(*args, **kwargs): the wrapped handler runs and its result
\* is the result of the wrapper.
func(handler_result) ==
    [status |-> 200, body |-> handler_result, handler_calls |-> 1]

\* require_permission whose wrapper calls the handler without the RBAC check.
require_permission_unchecked(current_user, permission, handler_result) ==
    IF current_user = None
    THEN HTTPException(401, "Authentication required")
    ELSE func(handler_result)

\* require_permission(permission) applied to a handler: the wrapper.
require_permission(current_user, permission, handler_result) ==
    IF current_user = None
    THEN HTTPException(401, "Authentication required")
    ELSE IF ~has_permission(current_user, permission)
    THEN HTTPException(403, "Permission denied")
    ELSE func(handler_result)

\* require_any_permission(permissions) applied to a handler: the wrapper.
require_any_permission(current_user, permissions, handler_result) ==
    IF current_user = None
    THEN HTTPException(401, "Authentication required")
    ELSE IF ~has_any_permission(current_user, permissions)
    THEN HTTPException(403, "Permission denied")
    ELSE func(handler_result)

\* require_all_permissions(permissions) applied to a handler: the wrapper.
require_all_permissions(current_user, permissions, handler_result) ==
    IF current_user = None
    THEN HTTPException(401, "Authentication required")
    ELSE IF ~has_all_permissions(current_user, permissions)
    THEN HTTPException(403, "Permission denied")
    ELSE func(handler_result)

\* require_resource_access(resource) applied to a handler: the wrapper.
require_resource_access(current_user, resource, handler_result) ==
    IF current_user = None
    THEN HTTPException(401, "Authentication required")
    ELSE IF ~can_access_resource(current_user, resource)
    THEN HTTPException(403, "Access denied to resource")
    ELSE func(handler_result)

(***************************************************************************)
(* Calls made to the RBAC module.  A call is drawn at the start; its       *)
(* operation then runs once.                                               *)
(***************************************************************************)

\* Longest permission list passed to the list-taking operations.
MaxPermissions == 2

\* Role arguments: the four members of UserRole and an unrecognized role.
RoleValues == UserRole \cup {UnknownRole}

\* Permission arguments: the enumeration and an unrecognized name.
PermissionValues == Permission \cup {UnknownPermission}

\* Resource arguments: the enumeration and an unrecognized name.
ResourceValues == {Resource[i] : i \in 1..Len(Resource)} \cup {UnknownResource}

\* Elements of the permission lists: one permission held by admin only, one
\* by admin and teacher, one by admin, teacher and student, one by admin and
\* parent, one by every role, and an unrecognized name.
ListPermissions ==
    {"delete_user", "mark_attendance", "update_student", "update_parent",
     "read_grade", UnknownPermission}

PermissionLists ==
    UNION {[1..n -> ListPermissions] : n \in 0..MaxPermissions}

\* kwargs.get('current_user'): absent, or a user, represented by its role.
CurrentUsers == RoleValues \cup {None}

\* What the wrapped route handler returns.
HandlerResults == {"response_a", "response_b"}

RBACRequest(op, user_role, permission, permissions, resource, handler_result) ==
    [op |-> op, user_role |-> user_role, permission |-> permission,
     permissions |-> permissions, resource |-> resource,
     handler_result |-> handler_result]

RBACRequests ==
    {RBACRequest("get_user_permissions", r, None, <<>>, None, None) :
        r \in RoleValues}
    \cup {RBACRequest("has_permission", r, p, <<>>, None, None) :
        r \in RoleValues, p \in PermissionValues}
    \cup {RBACRequest(op, r, None, l, None, None) :
        op \in {"has_any_permission", "has_all_permissions"},
        r \in RoleValues, l \in PermissionLists}
    \cup {RBACRequest("can_access_resource", r, None, <<>>, res, None) :
        r \in RoleValues, res \in ResourceValues}
    \cup {RBACRequest("get_accessible_resources", r, None, <<>>, None, None) :
        r \in RoleValues}
    \cup {RBACRequest("require_permission", u, p, <<>>, None, h) :
        u \in CurrentUsers, p \in Permission, h \in HandlerResults}
    \cup {RBACRequest(op, u, None, l, None, h) :
        op \in {"require_any_permission", "require_all_permissions"},
        u \in CurrentUsers, l \in PermissionLists, h \in HandlerResults}
    \cup {RBACRequest("require_resource_access", u, None, <<>>, res, h) :
        u \in CurrentUsers, res \in ResourceValues \ {UnknownResource},
        h \in HandlerResults}

\* The cache module before init_cache is called and the server before
\* anything is stored.
NoCall ==
    [op |-> "none", key |-> <<>>, keys |-> <<>>, result |-> [value |-> None],
     raised |-> None, store_calls |-> 0, store_errors |-> 0, invoked |-> 0,
     func_outcome |-> None, bypass |-> FALSE]

\* The concurrent callers of one cached() wrapper.
Callers == {"first", "second"}

\* A caller that has not entered the wrapper.
IdleCaller ==
    [pc |-> "idle", value |-> None, result |-> [value |-> None], raised |-> None,
     invoked |-> 0, set_reply |-> [value |-> None]]

\* ModelCache.__init__: nothing is cached.
ModelCacheInit ==
    /\ model_cache = [cache |-> [key \in {} |-> None], access_times |-> <<>>]
    /\ model_time = 0

CacheInit ==
    /\ cache_manager = [configured |-> FALSE, redis_client |-> FALSE,
                        serialize_method |-> "json"]
    /\ store = [name \in {} |-> None]
    /\ last_call = NoCall
    /\ callers = [caller \in Callers |-> IdleCaller]

\* No backup call has been made.
NoBackupCall == [op |-> "none", raised |-> None, result |-> <<>>]

\* The processes that make backups over one backup directory: the
\* scheduler's and a command-line invocation's.
Runs == {"scheduler", "cli"}

\* A process that has not called create_full_backup or
\* create_incremental_backup yet.
IdleRun == [pc |-> "idle", backups |-> <<>>, log_data |-> <<>>, raised |-> None]

\* BackupManager.__init__ on a backup directory that does not exist yet:
\* ensure_backup_directory creates it, empty; no bucket is configured.
BackupInit ==
    /\ clock = 0
    /\ backup_dir = [name \in {} |-> None]
    /\ backup_log = <<>>
    /\ s3_objects = {}
    /\ returned = <<>>
    /\ database = "live data"
    /\ backup_call = NoBackupCall
    /\ runs = [run \in Runs |-> IdleRun]

RBACInit ==
    /\ role_permissions = ROLE_PERMISSIONS
    /\ resource_permissions = RESOURCE_PERMISSIONS
    /\ rbac_req \in RBACRequests
    /\ rbac_pc = "call"
    /\ rbac_result = None
    /\ CacheInit
    /\ BackupInit
    /\ ModelCacheInit
    /\ s3_client = FALSE

\* The call rbac_req of operation op returns value.
RBACReturn(op, value) ==
    /\ rbac_pc = "call"
    /\ rbac_req.op = op
    /\ rbac_result' = value
    /\ rbac_pc' = "returned"
    /\ UNCHANGED <<role_permissions, resource_permissions, rbac_req>>
    /\ UNCHANGED <<cache_vars, backup_vars, local_vars>>

GetUserPermissions ==
    RBACReturn("get_user_permissions", get_user_permissions(rbac_req.user_role))

HasPermission ==
    RBACReturn("has_permission",
               has_permission(rbac_req.user_role, rbac_req.permission))

HasAnyPermission ==
    RBACReturn("has_any_permission",
               has_any_permission(rbac_req.user_role, rbac_req.permissions))

HasAllPermissions ==
    RBACReturn("has_all_permissions",
               has_all_permissions(rbac_req.user_role, rbac_req.permissions))

CanAccessResource ==
    RBACReturn("can_access_resource",
               can_access_resource(rbac_req.user_role, rbac_req.resource))

GetAccessibleResources ==
    RBACReturn("get_accessible_resources",
               get_accessible_resources(rbac_req.user_role))

RequirePermission ==
    RBACReturn("require_permission",
               require_permission(rbac_req.user_role, rbac_req.permission,
                                  rbac_req.handler_result))

RequireAnyPermission ==
    RBACReturn("require_any_permission",
               require_any_permission(rbac_req.user_role, rbac_req.permissions,
                                      rbac_req.handler_result))

RequireAllPermissions ==
    RBACReturn("require_all_permissions",
               require_all_permissions(rbac_req.user_role, rbac_req.permissions,
                                       rbac_req.handler_result))

RequireResourceAccess ==
    RBACReturn("require_resource_access",
               require_resource_access(rbac_req.user_role, rbac_req.resource,
                                       rbac_req.handler_result))

RBACNext ==
    \/ GetUserPermissions
    \/ HasPermission
    \/ HasAnyPermission
    \/ HasAllPermissions
    \/ CanAccessResource
    \/ GetAccessibleResources
    \/ RequirePermission
    \/ RequireAnyPermission
    \/ RequireAllPermissions
    \/ RequireResourceAccess

(***************************************************************************)
(* Claims about backend/rbac.py, checked under SpecRBAC.                   *)
(***************************************************************************)

\* The permission set the static table gives a role; empty for a role that is
\* no key of the table.
TableRolePermissions(role) ==
    IF role \in DOMAIN ROLE_PERMISSIONS THEN ROLE_PERMISSIONS[role] ELSE {}

\* The permission set the static table gives a resource.
TableResourcePermissions(resource) ==
    IF resource \in DOMAIN RESOURCE_PERMISSIONS
    THEN RESOURCE_PERMISSIONS[resource]
    ELSE {}

\* The elements of a list.
Elements(list) == {list[i] : i \in 1..Len(list)}

\* Whether the RBAC check of the decorator named by the call passes for the
\* call's user, read off the static tables.
DecoratorCheckPasses(req) ==
    LET held == TableRolePermissions(req.user_role)
    IN  CASE req.op = "require_permission" -> req.permission \in held
          [] req.op = "require_any_permission" ->
                Elements(req.permissions) \cap held # {}
          [] req.op = "require_all_permissions" ->
                Elements(req.permissions) \subseteq held
          [] req.op = "require_resource_access" ->
                TableResourcePermissions(req.resource) \cap held # {}

Decorators ==
    {"require_permission", "require_any_permission",
     "require_all_permissions", "require_resource_access"}

C2_HasPermissionIsMembership ==
    /\ (rbac_pc = "returned" /\ rbac_req.op = "has_permission") =>
          /\ rbac_result \in BOOLEAN
          /\ rbac_result =
                (rbac_req.permission \in get_user_permissions(rbac_req.user_role))
          /\ (rbac_req.user_role \notin UserRole => rbac_result = FALSE)
    /\ (rbac_pc = "returned" /\ rbac_req.op = "get_user_permissions") =>
          /\ (rbac_req.user_role \notin UserRole => rbac_result = {})
          /\ (rbac_req.user_role \in UserRole =>
                rbac_result = ROLE_PERMISSIONS[rbac_req.user_role])

\* The spec's scenario: has_permission(parent, read_grade) returned true.
C2_Witness ==
    /\ rbac_pc = "returned"
    /\ rbac_req.op = "has_permission"
    /\ rbac_req.user_role = "parent"
    /\ rbac_req.permission = "read_grade"
    /\ rbac_result = TRUE

\* The role table at run time: admin holds every other role's permissions
\* and no member of Permission is missing from every role.
RoleTableInvariant ==
    /\ DOMAIN role_permissions = UserRole
    /\ \A role \in UserRole : role_permissions[role] \subseteq role_permissions["admin"]
    /\ \A permission \in Permission :
          \E role \in UserRole : permission \in role_permissions[role]

\* C3: in the role-to-permission table the admin set is a superset of the
\* teacher, student and parent sets, every member of Permission appears in at
\* least one role's set, and no operation modifies the table.
C3_RoleTableStatic ==
    /\ []RoleTableInvariant
    /\ [][role_permissions' = role_permissions]_vars

\* An operation has run against the table.
C3_Witness ==
    /\ rbac_pc = "returned"
    /\ rbac_req.op = "get_user_permissions"
    /\ rbac_req.user_role = "teacher"
    /\ Cardinality(rbac_result) = 22
    /\ RoleTableInvariant

\* The number of positions of a list that hold x.
Occurrences(list, x) == Cardinality({i \in 1..Len(list) : list[i] = x})

\* C4: can_access_resource(R, r) is true exactly when R's permission set and
\* r's permission set share a permission, and get_accessible_resources(R)
\* holds exactly the resources R can access, each once.
C4_ResourceAccess ==
    /\ (rbac_pc = "returned" /\ rbac_req.op = "can_access_resource") =>
          rbac_result =
              (\E permission \in PermissionValues :
                  /\ permission \in TableRolePermissions(rbac_req.user_role)
                  /\ permission \in TableResourcePermissions(rbac_req.resource))
    /\ (rbac_pc = "returned" /\ rbac_req.op = "get_accessible_resources") =>
          /\ Elements(rbac_result) \subseteq ResourceValues
          /\ \A resource \in ResourceValues :
                Occurrences(rbac_result, resource) =
                    IF TableRolePermissions(rbac_req.user_role)
                         \cap TableResourcePermissions(resource) # {}
                    THEN 1 ELSE 0

\* A student asked for its accessible resources and got the six it shares a
\* permission with, "system" not among them.
C4_Witness ==
    /\ rbac_pc = "returned"
    /\ rbac_req.op = "get_accessible_resources"
    /\ rbac_req.user_role = "student"
    /\ Len(rbac_result) = 6
    /\ "system" \notin Elements(rbac_result)

\* C5: has_any_permission(R, L) is true exactly when L and R's set
\* intersect, has_all_permissions(R, L) exactly when every element of L is in
\* R's set; for the empty list the first is false and the second true, for
\* every role.
C5_AnyAll ==
    /\ (rbac_pc = "returned" /\ rbac_req.op = "has_any_permission") =>
          /\ rbac_result =
                (Elements(rbac_req.permissions)
                    \cap TableRolePermissions(rbac_req.user_role) # {})
          /\ (rbac_req.permissions = <<>> => rbac_result = FALSE)
    /\ (rbac_pc = "returned" /\ rbac_req.op = "has_all_permissions") =>
          /\ rbac_result =
                (Elements(rbac_req.permissions)
                    \subseteq TableRolePermissions(rbac_req.user_role))
          /\ (rbac_req.permissions = <<>> => rbac_result = TRUE)

\* has_all_permissions of the empty list returned true for the unrecognized
\* role.
C5_Witness ==
    /\ rbac_pc = "returned"
    /\ rbac_req.op = "has_all_permissions"
    /\ rbac_req.user_role = UnknownRole
    /\ rbac_req.permissions = <<>>
    /\ rbac_result = TRUE

(***************************************************************************)
(* backend/cache.py                                                        *)
(***************************************************************************)

\* Strings are sequences of symbols, so that a prefix can be prepended to a
\* key and looked for inside one.
key_prefix == <<"innovative_school:">>

\* CacheConfig.default_ttl, in seconds (ticks of the model's clock): a
\* constructor parameter, 3600 unless given, taken small here.
default_ttl == 2

\* Largest ttl argument passed to set, mset, expire and cached.
MaxTTL == 1

\* ttl: Optional[int] = None.
NoneTTL == -1

\* Python values handed to the cache: None, a list, a tuple and a dict keyed
\* by a tuple.
PyNone == None
PyList == "[1]"
PyTuple == "(1,)"
PyTupleKeyDict == "{(1,): 1}"

PyValues == {PyNone, PyList, PyTuple, PyTupleKeyDict}

\* Bytes that neither json.loads nor pickle.loads accepts.
GarbageBytes == "b'\\xff'"

\* What a method returns, kept apart by Python type: a bool, an int, a list
\* of key names, a list of cached values, and a cached value or None.
PyBool(b) == [bool |-> b]
PyInt(n) == [int |-> n]
PyKeyList(names) == [names |-> names]
PyValueList(values) == [values |-> values]
PyValue(v) == [value |-> v]

\* The result of a step that may raise: the value it returned, or the
\* exception that left it.
Returned(value) == [raised |-> None, value |-> value]
Raised(exception) == [raised |-> exception, value |-> None]

\* json.dumps(data, default=str).encode('utf-8'): a tuple is written as a
\* list; a dict whose keys are not str, int, float, bool or None is a
\* TypeError that default=str does not prevent.
json_dumps(data) ==
    CASE data = PyNone -> Returned("b'null'")
      [] data = PyList -> Returned("b'[1]'")
      [] data = PyTuple -> Returned("b'[1]'")
      [] OTHER -> Raised("TypeError")

\* json.loads(data.decode('utf-8')): UnicodeDecodeError and JSONDecodeError
\* are both ValueError.
json_loads(data) ==
    CASE data = "b'null'" -> Returned(PyNone)
      [] data = "b'[1]'" -> Returned(PyList)
      [] OTHER -> Raised("ValueError")

\* pickle.dumps(data): every value of PyValues can be pickled.
pickle_dumps(data) ==
    CASE data = PyNone -> Returned("pickle(None)")
      [] data = PyList -> Returned("pickle([1])")
      [] data = PyTuple -> Returned("pickle((1,))")
      [] data = PyTupleKeyDict -> Returned("pickle({(1,): 1})")
      [] OTHER -> Raised("PicklingError")

\* pickle.loads(data).
pickle_loads(data) ==
    CASE data = "pickle(None)" -> Returned(PyNone)
      [] data = "pickle([1])" -> Returned(PyList)
      [] data = "pickle((1,))" -> Returned(PyTuple)
      [] data = "pickle({(1,): 1})" -> Returned(PyTupleKeyDict)
      [] OTHER -> Raised("UnpicklingError")

\* _get_key without the prefix.
get_key_unprefixed(key) == key

\* CacheManager._get_key.
get_key(key) == key_prefix \o key

\* CacheManager._serialize.
serialize(serialize_method, data) ==
    IF serialize_method = "json" THEN json_dumps(data)
    ELSE IF serialize_method = "pickle" THEN pickle_dumps(data)
    ELSE Raised("ValueError")

\* CacheManager._deserialize.
deserialize(serialize_method, data) ==
    IF serialize_method = "json" THEN json_loads(data)
    ELSE IF serialize_method = "pickle" THEN pickle_loads(data)
    ELSE Raised("ValueError")

(***************************************************************************)
(* The Redis server as the client library sees it.  store maps each key    *)
(* that exists to the bytes stored under it and the seconds it has left to *)
(* live (NoExpiry for a key without expiry).                               *)
(***************************************************************************)

NoExpiry == -1

\* The key map m with key k bound to v.
Put(m, k, v) == [x \in DOMAIN m \cup {k} |-> IF x = k THEN v ELSE m[x]]

\* The key map m without the keys of ks.
Remove(m, ks) == [x \in DOMAIN m \ ks |-> m[x]]

\* A set that writes whatever nx and xx say.
redis_set_unconditional(st, name, value, ex, nx, xx) ==
    [store |-> Put(st, name, [data |-> value, ttl |-> ex]),
     reply |-> PyBool(TRUE)]

\* set that writes only when the key is absent, whatever nx and xx are.
redis_set_if_absent(st, name, value, ex, nx, xx) ==
    IF name \in DOMAIN st
    THEN [store |-> st, reply |-> PyValue(None)]
    ELSE [store |-> Put(st, name, [data |-> value, ttl |-> ex]),
          reply |-> PyBool(TRUE)]

\* redis_client.set(name, value, ex=ttl, nx=..., xx=...): the reply is True
\* when the value was written and None when nx or xx prevented it.
redis_set(st, name, value, ex, nx, xx) ==
    IF (nx /\ name \in DOMAIN st) \/ (xx /\ name \notin DOMAIN st)
    THEN [store |-> st, reply |-> PyValue(None)]
    ELSE [store |-> Put(st, name, [data |-> value, ttl |-> ex]),
          reply |-> PyBool(TRUE)]

\* redis_client.get(name): the bytes, or None.
redis_get(st, name) ==
    IF name \in DOMAIN st THEN st[name].data ELSE None

\* redis_client.delete(*names): the number of keys removed.
redis_delete(st, names) ==
    [store |-> Remove(st, names), reply |-> Cardinality(names \cap DOMAIN st)]

\* redis_client.exists(name): the number of keys that exist.
redis_exists(st, name) == IF name \in DOMAIN st THEN 1 ELSE 0

\* redis_client.expire(name, time): true when the key exists.
redis_expire(st, name, time) ==
    IF name \in DOMAIN st
    THEN [store |-> Put(st, name, [data |-> st[name].data, ttl |-> time]),
          reply |-> TRUE]
    ELSE [store |-> st, reply |-> FALSE]

\* redis_client.ttl(name): -2 for a key that does not exist, -1 for a key
\* without expiry.
redis_ttl(st, name) ==
    IF name \notin DOMAIN st THEN -2 ELSE st[name].ttl

\* Glob matching of a key against a pattern, "*" standing for any run of
\* symbols.
RECURSIVE GlobMatch(_, _)
GlobMatch(pattern, name) ==
    IF pattern = <<>> THEN name = <<>>
    ELSE IF Head(pattern) = "*"
    THEN \/ GlobMatch(Tail(pattern), name)
         \/ (name # <<>> /\ GlobMatch(pattern, Tail(name)))
    ELSE /\ name # <<>>
         /\ Head(name) = Head(pattern)
         /\ GlobMatch(Tail(pattern), Tail(name))

\* redis_client.keys(pattern): the existing keys that match, in the order
\* the server happens to list them (order enumerates the key space).
redis_keys(st, pattern, order) ==
    SelectSeq(order, LAMBDA name : name \in DOMAIN st /\ GlobMatch(pattern, name))

\* redis_client.mset(mapping): every key is written, without expiry.
redis_mset(st, mapping) ==
    [x \in DOMAIN st \cup DOMAIN mapping |->
        IF x \in DOMAIN mapping
        THEN [data |-> mapping[x], ttl |-> NoExpiry]
        ELSE st[x]]

\* redis_client.mget(names): the bytes or None for each name, in order.
redis_mget(st, names) ==
    [i \in 1..Len(names) |-> redis_get(st, names[i])]

(***************************************************************************)
(* CacheManager.  mgr is the manager (its redis_client and its             *)
(* serialize_method), st the server's content when the method starts.      *)
(* Each call the method makes to the server takes a flag telling whether   *)
(* that call raises RedisError.  A method yields its result or the         *)
(* exception that leaves it, the server's content afterwards, and the      *)
(* number of server calls made and of those that raised RedisError.        *)
(***************************************************************************)

Return(result, st, calls, errors) ==
    [result |-> result, raised |-> None, store |-> st,
     store_calls |-> calls, store_errors |-> errors]

Raise(exception, st, calls, errors) ==
    [result |-> PyValue(None), raised |-> exception, store |-> st,
     store_calls |-> calls, store_errors |-> errors]

\* 1 for a call that raised RedisError, 0 for one that did not.
Err(fail) == IF fail THEN 1 ELSE 0

\* CacheManager.set.
CacheManager_set(mgr, st, key, value, ttl, nx, xx, fail) ==
    IF ~mgr.redis_client THEN Return(PyBool(FALSE), st, 0, 0)
    ELSE
    LET full_key == get_key(key)
        serialized_value == serialize(mgr.serialize_method, value)
        ex == IF ttl = NoneTTL \/ ttl = 0 THEN default_ttl ELSE ttl
        reply == redis_set(st, full_key, serialized_value.value, ex,
                           nx, xx /\ ~nx)
    IN  IF serialized_value.raised # None
        THEN Raise(serialized_value.raised, st, 0, 0)
        ELSE IF fail THEN Return(PyBool(FALSE), st, 1, 1)
        ELSE Return(reply.reply, reply.store, 1, 0)

\* CacheManager.get.
CacheManager_get(mgr, st, key, fail) ==
    IF ~mgr.redis_client THEN Return(PyValue(None), st, 0, 0)
    ELSE
    LET full_key == get_key(key)
        data == redis_get(st, full_key)
        decoded == deserialize(mgr.serialize_method, data)
    IN  IF fail THEN Return(PyValue(None), st, 1, 1)
        ELSE IF data = None THEN Return(PyValue(None), st, 1, 0)
        ELSE IF decoded.raised # None THEN Raise(decoded.raised, st, 1, 0)
        ELSE Return(PyValue(decoded.value), st, 1, 0)

\* CacheManager.delete.
CacheManager_delete(mgr, st, key, fail) ==
    IF ~mgr.redis_client THEN Return(PyBool(FALSE), st, 0, 0)
    ELSE
    LET reply == redis_delete(st, {get_key(key)})
    IN  IF fail THEN Return(PyBool(FALSE), st, 1, 1)
        ELSE Return(PyBool(reply.reply # 0), reply.store, 1, 0)

\* CacheManager.exists.
CacheManager_exists(mgr, st, key, fail) ==
    IF ~mgr.redis_client THEN Return(PyBool(FALSE), st, 0, 0)
    ELSE IF fail THEN Return(PyBool(FALSE), st, 1, 1)
    ELSE Return(PyBool(redis_exists(st, get_key(key)) # 0), st, 1, 0)

\* CacheManager.expire.
CacheManager_expire(mgr, st, key, ttl, fail) ==
    IF ~mgr.redis_client THEN Return(PyBool(FALSE), st, 0, 0)
    ELSE
    LET reply == redis_expire(st, get_key(key), ttl)
    IN  IF fail THEN Return(PyBool(FALSE), st, 1, 1)
        ELSE Return(PyBool(reply.reply), reply.store, 1, 0)

\* CacheManager.ttl.
CacheManager_ttl(mgr, st, key, fail) ==
    IF ~mgr.redis_client THEN Return(PyInt(-1), st, 0, 0)
    ELSE IF fail THEN Return(PyInt(-1), st, 1, 1)
    ELSE Return(PyInt(redis_ttl(st, get_key(key))), st, 1, 0)

\* str.replace(old, ''): text with every occurrence of old removed, scanning
\* from the left.
RECURSIVE str_replace(_, _)
str_replace(text, old) ==
    IF Len(text) < Len(old) \/ old = <<>> THEN text
    ELSE IF SubSeq(text, 1, Len(old)) = old
    THEN str_replace(SubSeq(text, Len(old) + 1, Len(text)), old)
    ELSE <<Head(text)>> \o str_replace(Tail(text), old)

\* CacheManager.keys.
CacheManager_keys(mgr, st, pattern, fail, order) ==
    IF ~mgr.redis_client THEN Return(PyKeyList(<<>>), st, 0, 0)
    ELSE
    LET full_pattern == get_key(pattern)
        keys == redis_keys(st, full_pattern, order)
    IN  IF fail THEN Return(PyKeyList(<<>>), st, 1, 1)
        ELSE Return(PyKeyList([i \in 1..Len(keys) |->
                                     str_replace(keys[i], key_prefix)]),
                    st, 1, 0)

\* CacheManager.flush: fail_keys and fail_delete are the outcomes of its two
\* server calls.
CacheManager_flush(mgr, st, fail_keys, fail_delete, order) ==
    IF ~mgr.redis_client THEN Return(PyBool(FALSE), st, 0, 0)
    ELSE
    LET keys == redis_keys(st, get_key(<<"*">>), order)
        reply == redis_delete(st, {keys[i] : i \in 1..Len(keys)})
    IN  IF fail_keys THEN Return(PyBool(FALSE), st, 1, 1)
        ELSE IF keys = <<>> THEN Return(PyBool(TRUE), st, 1, 0)
        ELSE IF fail_delete THEN Return(PyBool(FALSE), st, 2, 1)
        ELSE Return(PyBool(reply.reply # 0), reply.store, 2, 0)

\* The first exception raised while the elements of a list are decoded, or
\* None.
FirstRaised(results) ==
    IF \E i \in 1..Len(results) : results[i].raised # None
    THEN results[CHOOSE i \in 1..Len(results) :
                    /\ results[i].raised # None
                    /\ \A j \in 1..(i - 1) : results[j].raised = None].raised
    ELSE None

\* CacheManager.mget.
CacheManager_mget(mgr, st, keys, fail) ==
    IF ~mgr.redis_client THEN Return(PyValueList([i \in 1..Len(keys) |-> None]), st, 0, 0)
    ELSE
    LET full_keys == [i \in 1..Len(keys) |-> get_key(keys[i])]
        data_list == redis_mget(st, full_keys)
        decoded == [i \in 1..Len(keys) |->
                       IF data_list[i] # None
                       THEN deserialize(mgr.serialize_method, data_list[i])
                       ELSE Returned(None)]
    IN  IF fail THEN Return(PyValueList([i \in 1..Len(keys) |-> None]), st, 1, 1)
        ELSE IF FirstRaised(decoded) # None
        THEN Raise(FirstRaised(decoded), st, 1, 0)
        ELSE Return(PyValueList([i \in 1..Len(keys) |-> decoded[i].value]),
                    st, 1, 0)

\* The content of the server after self.expire(key, ttl) has been called for
\* the keys of a list in turn; fail_expire[i] tells whether the i-th call
\* raised RedisError inside expire, which catches it.
RECURSIVE ExpireAll(_, _, _, _, _)
ExpireAll(mgr, st, keys, ttl, fail_expire) ==
    IF keys = <<>> THEN st
    ELSE ExpireAll(mgr,
                   CacheManager_expire(mgr, st, Head(keys), ttl,
                                       Head(fail_expire)).store,
                   Tail(keys), ttl, Tail(fail_expire))

\* The number of TRUE entries of a list of flags.
CountTrue(flags) == Cardinality({i \in 1..Len(flags) : flags[i]})

\* CacheManager.mset.  mapping is the dict as a list of <<key, value>> items
\* with distinct keys.
CacheManager_mset(mgr, st, mapping, ttl, fail_mset, fail_expire) ==
    IF ~mgr.redis_client THEN Return(PyBool(FALSE), st, 0, 0)
    ELSE
    LET n == Len(mapping)
        serialized == [i \in 1..n |-> serialize(mgr.serialize_method, mapping[i][2])]
        full_mapping == [name \in {get_key(mapping[i][1]) : i \in 1..n} |->
                            serialized[CHOOSE i \in 1..n :
                                          get_key(mapping[i][1]) = name].value]
        keys == [i \in 1..n |-> mapping[i][1]]
    IN  IF FirstRaised(serialized) # None
        THEN Raise(FirstRaised(serialized), st, 0, 0)
        ELSE IF fail_mset THEN Return(PyBool(FALSE), st, 1, 1)
        ELSE IF ttl # NoneTTL /\ ttl # 0
        THEN Return(PyBool(TRUE),
                    ExpireAll(mgr, redis_mset(st, full_mapping), keys, ttl,
                              fail_expire),
                    1 + n, CountTrue(fail_expire))
        ELSE Return(PyBool(TRUE), redis_mset(st, full_mapping), 1, 0)

(***************************************************************************)
(* The cached() decorator.                                                 *)
(***************************************************************************)

\* Arguments the decorated function is called with.
Args == {"x=1", "x=2"}

\* The cache_condition passed to cached(): None, or a callable that returns
\* true for the argument "x=1" only.
CacheConditions == {None, "x_is_1"}

cache_condition_holds(cache_condition, args) == args = "x=1"

\* The key the wrapper derives: f"{func.__name__}:{cache_key(*args, **kwargs)}",
\* the md5 hash being taken as injective on the arguments in Args.
cache_key_str(args) == <<"func:", args>>

\* What the decorated function does when it is invoked: it returns a value
\* or raises its own exception.
FuncOutcomes == {Returned(v) : v \in PyValues} \cup {Raised("FuncError")}

WrapperResult(outcome, invoked) ==
    [result |-> outcome.result, raised |-> outcome.raised,
     store |-> outcome.store, store_calls |-> outcome.store_calls,
     store_errors |-> outcome.store_errors, invoked |-> invoked]

\* func(*args, **kwargs) called outside any cache access.
CallThrough(st, func_outcome) ==
    [result |-> PyValue(func_outcome.value), raised |-> func_outcome.raised,
     store |-> st, store_calls |-> 0, store_errors |-> 0, invoked |-> 1]

\* The wrapper with the cache_condition test moved after the cache lookup.
cached_condition_after_get(mgr, st, ttl, cache_condition, args, func_outcome, fail_get, fail_set) ==
    IF ~mgr.configured THEN CallThrough(st, func_outcome)
    ELSE
    LET cached_result == CacheManager_get(mgr, st, cache_key_str(args), fail_get)
        stored == CacheManager_set(mgr, st, cache_key_str(args),
                                   func_outcome.value, ttl, FALSE, FALSE, fail_set)
    IN  IF cached_result.raised # None THEN WrapperResult(cached_result, 0)
        ELSE IF cached_result.result # PyValue(None) THEN WrapperResult(cached_result, 0)
        ELSE IF cache_condition # None
                /\ ~cache_condition_holds(cache_condition, args)
        THEN [CallThrough(st, func_outcome) EXCEPT
                 !.store_calls = cached_result.store_calls,
                 !.store_errors = cached_result.store_errors]
        ELSE IF func_outcome.raised # None
        THEN [CallThrough(st, func_outcome) EXCEPT
                 !.store_calls = cached_result.store_calls,
                 !.store_errors = cached_result.store_errors]
        ELSE [result |-> PyValue(IF stored.raised # None THEN None
                                  ELSE func_outcome.value),
              raised |-> stored.raised,
              store |-> stored.store,
              store_calls |-> cached_result.store_calls + stored.store_calls,
              store_errors |-> cached_result.store_errors + stored.store_errors,
              invoked |-> 1]

\* cached(ttl, key_func=None, cache_condition)(func): the wrapper, called with
\* args.  func_outcome is what func does if the wrapper invokes it; fail_get
\* and fail_set are the outcomes of the server calls made by cache.get and
\* cache.set.
cached(mgr, st, ttl, cache_condition, args, func_outcome, fail_get, fail_set) ==
    IF ~mgr.configured THEN CallThrough(st, func_outcome)
    ELSE
    LET cache_key_string == cache_key_str(args)
        cached_result == CacheManager_get(mgr, st, cache_key_string, fail_get)
        stored == CacheManager_set(mgr, st, cache_key_string,
                                   func_outcome.value, ttl, FALSE, FALSE, fail_set)
    IN  IF cache_condition # None /\ ~cache_condition_holds(cache_condition, args)
        THEN CallThrough(st, func_outcome)
        ELSE IF cached_result.raised # None THEN WrapperResult(cached_result, 0)
        ELSE IF cached_result.result # PyValue(None) THEN WrapperResult(cached_result, 0)
        ELSE IF func_outcome.raised # None
        THEN [CallThrough(st, func_outcome) EXCEPT
                 !.store_calls = cached_result.store_calls,
                 !.store_errors = cached_result.store_errors]
        ELSE [result |-> PyValue(IF stored.raised # None THEN None
                                  ELSE func_outcome.value),
              raised |-> stored.raised,
              store |-> stored.store,
              store_calls |-> cached_result.store_calls + stored.store_calls,
              store_errors |-> cached_result.store_errors + stored.store_errors,
              invoked |-> 1]

(***************************************************************************)
(* The cache as a state machine: calls of the cache module's functions by  *)
(* the application, the passing of time and other clients of the server.   *)
(***************************************************************************)

\* Longest key list passed to mget and largest mapping passed to mset.
MaxKeys == 2

SerializeMethods == {"json", "pickle"}

\* The keys the application uses: those the wrapper derives.
LogicalKeys == {cache_key_str(args) : args \in Args}

\* The keys of the server that the model follows.
StoreKeys == {get_key(key) : key \in LogicalKeys}

\* ttl arguments: None, 0 and the positive values up to MaxTTL.
TTLArgs == {NoneTTL} \cup (0..MaxTTL)

\* Patterns passed to keys().
Patterns == {<<"*">>, <<"func:", "*">>, <<"func:", "x=1">>}

\* The lists without repetition of all elements of a set.
Orderings(S) ==
    {order \in [1..Cardinality(S) -> S] :
        \A i, j \in 1..Cardinality(S) : i # j => order[i] # order[j]}

\* The key lists passed to mget.
KeyLists == UNION {[1..n -> LogicalKeys] : n \in 0..MaxKeys}

\* The dicts passed to mset, as lists of <<key, value>> items with distinct
\* keys.
Mappings ==
    {mapping \in UNION {[1..n -> LogicalKeys \X PyValues] : n \in 1..MaxKeys} :
        \A i, j \in 1..Len(mapping) : i # j => mapping[i][1] # mapping[j][1]}

\* The record of a call that has returned or raised, kept until the caller
\* has taken it.
Call(op, key, keys, outcome, invoked, func_outcome, bypass) ==
    [op |-> op, key |-> key, keys |-> keys,
     result |-> outcome.result, raised |-> outcome.raised,
     store_calls |-> outcome.store_calls, store_errors |-> outcome.store_errors,
     invoked |-> invoked, func_outcome |-> func_outcome, bypass |-> bypass]

\* The application is between calls and init_cache has been called, so that
\* get_cache() returns the manager.
Ready == last_call = NoCall /\ cache_manager.configured

\* Whether a call made to the server raises RedisError: either, with a
\* redis_client; without one no call is made and none fails.
StoreFailures == IF cache_manager.redis_client THEN BOOLEAN ELSE {FALSE}

\* A call of a CacheManager method through get_cache().
ManagerCall(op, key, keys, outcome) ==
    /\ store' = outcome.store
    /\ last_call' = Call(op, key, keys, outcome, 0, None, FALSE)
    /\ UNCHANGED cache_manager
    /\ UNCHANGED <<rbac_vars, backup_vars, local_vars>>

\* init_cache(config): CacheManager.__init__ and _connect; connected tells
\* whether ping() succeeded, otherwise redis_client is set to None.
InitCache ==
    \E method \in SerializeMethods, connected \in BOOLEAN :
        /\ last_call = NoCall
        /\ cache_manager' = [configured |-> TRUE, redis_client |-> connected,
                             serialize_method |-> method]
        /\ last_call' = Call("init_cache", <<>>, <<>>,
                             Return(PyValue(None), store, 1, Err(~connected)),
                             0, None, FALSE)
        /\ UNCHANGED store
        /\ UNCHANGED <<rbac_vars, backup_vars, local_vars>>

Set ==
    /\ Ready
    /\ \E key \in LogicalKeys, value \in PyValues, ttl \in TTLArgs,
          nx \in BOOLEAN, xx \in BOOLEAN, fail \in StoreFailures :
           ManagerCall("set", key, <<>>,
                       CacheManager_set(cache_manager, store, key, value, ttl,
                                        nx, xx, fail))

Get ==
    /\ Ready
    /\ \E key \in LogicalKeys, fail \in StoreFailures :
           ManagerCall("get", key, <<>>,
                       CacheManager_get(cache_manager, store, key, fail))

Delete ==
    /\ Ready
    /\ \E key \in LogicalKeys, fail \in StoreFailures :
           ManagerCall("delete", key, <<>>,
                       CacheManager_delete(cache_manager, store, key, fail))

Exists ==
    /\ Ready
    /\ \E key \in LogicalKeys, fail \in StoreFailures :
           ManagerCall("exists", key, <<>>,
                       CacheManager_exists(cache_manager, store, key, fail))

Expire ==
    /\ Ready
    /\ \E key \in LogicalKeys, ttl \in 1..MaxTTL, fail \in StoreFailures :
           ManagerCall("expire", key, <<>>,
                       CacheManager_expire(cache_manager, store, key, ttl, fail))

Ttl ==
    /\ Ready
    /\ \E key \in LogicalKeys, fail \in StoreFailures :
           ManagerCall("ttl", key, <<>>,
                       CacheManager_ttl(cache_manager, store, key, fail))

Keys ==
    /\ Ready
    /\ \E pattern \in Patterns, fail \in StoreFailures,
          order \in Orderings(StoreKeys) :
           ManagerCall("keys", pattern, <<>>,
                       CacheManager_keys(cache_manager, store, pattern, fail, order))

Flush ==
    /\ Ready
    /\ \E fail_keys \in StoreFailures, fail_delete \in StoreFailures,
          order \in Orderings(StoreKeys) :
           ManagerCall("flush", <<>>, <<>>,
                       CacheManager_flush(cache_manager, store, fail_keys,
                                          fail_delete, order))

Mget ==
    /\ Ready
    /\ \E keys \in KeyLists, fail \in StoreFailures :
           ManagerCall("mget", <<>>, keys,
                       CacheManager_mget(cache_manager, store, keys, fail))

\* The outcomes of the expire calls of an mset of n items: any, when the
\* calls are made, and none failing when they are not.
ExpireFailures(n, ttl, fail_mset) ==
    IF fail_mset \/ ttl = NoneTTL \/ ttl = 0
    THEN {[i \in 1..n |-> FALSE]}
    ELSE [1..n -> StoreFailures]

Mset ==
    /\ Ready
    /\ \E mapping \in Mappings, ttl \in TTLArgs, fail_mset \in StoreFailures :
           \E fail_expire \in ExpireFailures(Len(mapping), ttl, fail_mset) :
               ManagerCall("mset", <<>>, [i \in 1..Len(mapping) |-> mapping[i][1]],
                           CacheManager_mset(cache_manager, store, mapping, ttl,
                                             fail_mset, fail_expire))

\* A call of a function decorated with cached(ttl, cache_condition=...).
CachedCall ==
    /\ last_call = NoCall
    /\ \E ttl \in TTLArgs, cache_condition \in CacheConditions, args \in Args,
          func_outcome \in FuncOutcomes, fail_get \in StoreFailures,
          fail_set \in StoreFailures :
           LET outcome == cached(cache_manager, store, ttl, cache_condition, args,
                                 func_outcome, fail_get, fail_set)
           IN  /\ store' = outcome.store
               /\ last_call' =
                     Call("cached", cache_key_str(args), <<>>, outcome,
                          outcome.invoked,
                          IF outcome.invoked = 0 THEN None
                          ELSE IF func_outcome.raised # None THEN "raise"
                          ELSE func_outcome.value,
                          cache_condition # None
                             /\ ~cache_condition_holds(cache_condition, args))
               /\ UNCHANGED cache_manager
               /\ UNCHANGED <<rbac_vars, backup_vars, local_vars>>

\* The content of the server one second after it was st: every expiry has
\* come a second closer and the keys whose time is up are gone.
OneSecondLater(st) ==
    [name \in {n \in DOMAIN st : st[n].ttl # 1} |->
        IF st[name].ttl = NoExpiry THEN st[name]
        ELSE [st[name] EXCEPT !.ttl = @ - 1]]

\* The content of the server n seconds after it was st, nothing being
\* written in between.
RECURSIVE SecondsLater(_, _)
SecondsLater(st, n) ==
    IF n = 0 THEN st ELSE SecondsLater(OneSecondLater(st), n - 1)

\* One second passes on the server.
Tick ==
    /\ last_call = NoCall
    /\ \E name \in DOMAIN store : store[name].ttl # NoExpiry
    /\ store' = OneSecondLater(store)
    /\ UNCHANGED <<cache_manager, last_call>>
    /\ UNCHANGED <<rbac_vars, backup_vars, local_vars>>

\* Another client of the same server (another application, or a writer using
\* another format) leaves bytes under a key that this application's
\* serialization method cannot have produced.
OtherClientWrites ==
    \E name \in StoreKeys :
        /\ last_call = NoCall
        /\ store' = Put(store, name, [data |-> GarbageBytes, ttl |-> NoExpiry])
        /\ UNCHANGED <<cache_manager, last_call>>
        /\ UNCHANGED <<rbac_vars, backup_vars, local_vars>>

\* The caller takes the outcome of its call and goes on.
CallerContinues ==
    /\ last_call # NoCall
    /\ last_call' = NoCall
    /\ UNCHANGED <<cache_manager, store>>
    /\ UNCHANGED <<rbac_vars, backup_vars, local_vars>>

CacheNext ==
    \/ CallerContinues
    \/ InitCache
    \/ Set
    \/ Get
    \/ Delete
    \/ Exists
    \/ Expire
    \/ Ttl
    \/ Keys
    \/ Flush
    \/ Mget
    \/ Mset
    \/ CachedCall
    \/ Tick
    \/ OtherClientWrites

\* The cache module before init_cache is called, the RBAC module at rest
\* while the cache is exercised.
CacheSpecInit ==
    /\ role_permissions = ROLE_PERMISSIONS
    /\ resource_permissions = RESOURCE_PERMISSIONS
    /\ rbac_req = RBACRequest("none", None, None, <<>>, None, None)
    /\ rbac_pc = "idle"
    /\ rbac_result = None
    /\ CacheInit
    /\ BackupInit
    /\ ModelCacheInit
    /\ s3_client = FALSE

SpecRBAC == RBACInit /\ [][RBACNext]_vars

SpecCache == CacheSpecInit /\ [][CacheNext]_vars

(***************************************************************************)
(* Claims about backend/cache.py, checked under SpecCache.  A step whose   *)
(* new last_call names an operation is a call of that operation: the       *)
(* unprimed variables are the state it started in, the primed ones the     *)
(* state and the outcome it left.                                          *)
(***************************************************************************)

\* The outcome of a wrapper call is that of the decorated function's own
\* invocation: its return value, or its exception.
OutcomeIsFuncs(call) ==
    \/ call.raised = None /\ call.func_outcome # "raise"
                          /\ call.result = PyValue(call.func_outcome)
    \/ call.raised = "FuncError" /\ call.func_outcome = "raise"

\* The server holds, under the key derived for a call, what an earlier call
\* of the wrapper stores for some return value of the function, and the
\* entry has not expired.
HoldsEarlierResult(key) ==
    /\ get_key(key) \in DOMAIN store
    /\ \E value \in PyValues :
          serialize(cache_manager.serialize_method, value)
              = Returned(store[get_key(key)].data)

\* C6: two calls of a cached() function with identical arguments within the
\* TTL window, with a working cache manager, invoke the function exactly
\* once, for every return value: the first call, a miss, invokes it and, when
\* it returns, has left the result in the store under the derived key; a
\* later call that finds the unexpired entry does not invoke the function
\* and returns the stored value.
C6_CachedOnce ==
    [][(/\ last_call'.op = "cached"
        /\ cache_manager.configured /\ cache_manager.redis_client
        /\ ~last_call'.bypass
        /\ last_call'.store_errors = 0)
       =>
       IF HoldsEarlierResult(last_call'.key)
       THEN /\ last_call'.invoked = 0
            /\ last_call'.raised = None
            /\ Returned(last_call'.result.value) =
                  deserialize(cache_manager.serialize_method,
                              store[get_key(last_call'.key)].data)
       ELSE (get_key(last_call'.key) \notin DOMAIN store
             /\ last_call'.raised = None)
            => /\ last_call'.invoked = 1
               /\ OutcomeIsFuncs(last_call')
               /\ get_key(last_call'.key) \in DOMAIN store'
               /\ Returned(store'[get_key(last_call'.key)].data) =
                     serialize(cache_manager.serialize_method,
                               last_call'.func_outcome)
      ]_vars

\* C7: when the cache_condition returns false for the call's arguments the
\* wrapped function is invoked on that call, its outcome is the call's
\* outcome, the store is neither read nor written and every entry, the one
\* under the call's key included, is left as it was.
C7_ConditionBypass ==
    [][(last_call'.op = "cached" /\ last_call'.bypass)
       => /\ last_call'.invoked = 1
          /\ OutcomeIsFuncs(last_call')
          /\ last_call'.store_calls = 0
          /\ store' = store
      ]_vars

\* A call whose cache_condition was false has invoked the function although
\* the connected store holds a decodable entry under the call's key.
C7_Witness ==
    /\ last_call.op = "cached"
    /\ last_call.bypass
    /\ last_call.invoked = 1
    /\ cache_manager.configured /\ cache_manager.redis_client
    /\ HoldsEarlierResult(last_call.key)
    /\ store[get_key(last_call.key)].data # "b'null'"
    /\ store[get_key(last_call.key)].data # "pickle(None)"

\* C8: when no cache manager is configured, or the store was unreachable at
\* construction, or every call made to the store fails, a call of the
\* wrapper invokes the function once and its outcome is the function's: its
\* result or its exception, and no other exception.
C8_StrictlyAdditive ==
    [][(/\ last_call'.op = "cached"
        /\ \/ ~cache_manager.configured
           \/ ~cache_manager.redis_client
           \/ /\ last_call'.store_calls > 0
              /\ last_call'.store_errors = last_call'.store_calls)
       => /\ last_call'.invoked = 1
          /\ OutcomeIsFuncs(last_call')
      ]_vars

ManagerOps ==
    {"set", "get", "delete", "exists", "expire", "ttl", "keys", "flush",
     "mget", "mset"}

\* What the claim says each method returns when the store fails.
SafeDefault(call) ==
    CASE call.op \in {"set", "delete", "exists", "expire", "flush", "mset"}
             -> PyBool(FALSE)
      [] call.op = "get" -> PyValue(None)
      [] call.op = "ttl" -> PyInt(-1)
      [] call.op = "keys" -> PyKeyList(<<>>)
      [] call.op = "mget" -> PyValueList([i \in 1..Len(call.keys) |-> None])

\* C9: no store-facing CacheManager method raises when the store was
\* unreachable at construction or a store call fails during the method; set,
\* delete, exists, expire, flush and mset then return false, get returns
\* None, ttl returns -1, keys returns the empty list and mget a list of None
\* as long as the request.
C9_StoreFailureDefaults ==
    [][(/\ last_call'.op \in ManagerOps
        /\ \/ ~cache_manager.redis_client
           \/ last_call'.store_errors > 0)
       => /\ last_call'.raised = None
          /\ last_call'.result = SafeDefault(last_call')
      ]_vars

\* The bytes stored under a key cannot be decoded with the configured
\* serialization method.
Undecodable(key) ==
    /\ get_key(key) \in DOMAIN store
    /\ deserialize(cache_manager.serialize_method,
                   store[get_key(key)].data).raised # None

\* C10: get(key) and mget(keys) return None for a key, and do not raise,
\* when the bytes stored under it cannot be decoded with the configured
\* serialization method.
C10_UndecodableIsAbsent ==
    [][/\ (/\ last_call'.op = "get"
           /\ cache_manager.redis_client
           /\ last_call'.store_errors = 0
           /\ Undecodable(last_call'.key))
          => (last_call'.raised = None /\ last_call'.result = PyValue(None))
       /\ (/\ last_call'.op = "mget"
           /\ cache_manager.redis_client
           /\ last_call'.store_errors = 0
           /\ \E i \in 1..Len(last_call'.keys) : Undecodable(last_call'.keys[i]))
          => /\ last_call'.raised = None
             /\ \A i \in 1..Len(last_call'.keys) :
                   Undecodable(last_call'.keys[i])
                       => last_call'.result.values[i] = None
      ]_vars

(***************************************************************************)
(* Claims about single CacheManager methods.  What a method does in a      *)
(* state is what its operator yields for the manager and the server        *)
(* content of that state; the claims are stated for every argument of the  *)
(* bounded input sets in every reachable state, the store calls            *)
(* succeeding.                                                             *)
(***************************************************************************)

\* The values of PyValues that JSON represents natively.
JSONRepresentable == {PyNone, PyList}

\* Every key of the server other than name is the same in st and in after.
OtherKeysUnchanged(st, after, name) ==
    /\ DOMAIN after \ {name} = DOMAIN st \ {name}
    /\ \A other \in DOMAIN st \ {name} : after[other] = st[other]

\* C11: round trip.  For every key k, JSON-representable value v and ttl, a
\* set(k, v, ttl) that reports success followed immediately by get(k)
\* returns a value equal to v; the value is stored under prefix+k and no
\* other key of the server is touched.
C11_RoundTrip ==
    (Ready /\ cache_manager.redis_client) =>
        \A key \in LogicalKeys, value \in JSONRepresentable, ttl \in TTLArgs,
           nx \in BOOLEAN, xx \in BOOLEAN :
            LET stored == CacheManager_set(cache_manager, store, key, value,
                                           ttl, nx, xx, FALSE)
                read == CacheManager_get(cache_manager, stored.store, key, FALSE)
            IN  stored.result = PyBool(TRUE)
                => /\ read.raised = None
                   /\ read.result = PyValue(value)
                   /\ (key_prefix \o key) \in DOMAIN stored.store
                   /\ OtherKeysUnchanged(store, stored.store, key_prefix \o key)

\* A get has returned the list that a set stored as JSON under the key and
\* no second has passed since the set.
C11_Witness ==
    /\ last_call.op = "get"
    /\ last_call.raised = None
    /\ last_call.result = PyValue(PyList)
    /\ cache_manager.redis_client
    /\ cache_manager.serialize_method = "json"
    /\ (key_prefix \o last_call.key) \in DOMAIN store
    /\ store[key_prefix \o last_call.key] =
          [data |-> "b'[1]'", ttl |-> default_ttl]

\* C12: after set(k, v, ttl), once ttl seconds (default_ttl seconds when no
\* ttl is passed) have elapsed with no further write of k, get(k) returns
\* None; until then get, exists and ttl calls leave every entry and its
\* remaining lifetime as they were.
C12_Expiry ==
    cache_manager.redis_client =>
        \A key \in LogicalKeys, value \in PyValues, ttl \in TTLArgs,
           nx \in BOOLEAN, xx \in BOOLEAN :
            LET stored == CacheManager_set(cache_manager, store, key, value,
                                           ttl, nx, xx, FALSE)
                lifetime == IF ttl = NoneTTL THEN default_ttl ELSE ttl
                expired == SecondsLater(stored.store, lifetime)
            IN  stored.result = PyBool(TRUE)
                => /\ CacheManager_get(cache_manager, expired, key, FALSE)
                          = Return(PyValue(None), expired, 1, 0)
                   /\ \A n \in 0..lifetime :
                         LET st == SecondsLater(stored.store, n)
                         IN  /\ CacheManager_get(cache_manager, st, key,
                                                 FALSE).store = st
                             /\ CacheManager_exists(cache_manager, st, key,
                                                    FALSE).store = st
                             /\ CacheManager_ttl(cache_manager, st, key,
                                                 FALSE).store = st

(***************************************************************************)
(* The cache on a server shared with another application, and with a       *)
(* logical key that contains the prefix string inside it.                  *)
(***************************************************************************)

\* Logical keys of this application: a plain one and one that contains the
\* prefix string.
SharedLogicalKeys ==
    {<<"user:", "1">>, <<"report:", "innovative_school:", "2024">>}

\* A key of another application: it does not start with this instance's
\* prefix, though it contains it.
ForeignKeys == {<<"other_app:", "innovative_school:", "user:", "1">>}

\* Bytes written by the other application.
ForeignBytes == "b'foreign'"

\* Patterns passed to keys() and invalidate_cache().
SharedPatterns == {<<"*">>, <<"report:", "*">>}

\* The keys that get and delete are called with: the logical keys and what
\* keys() makes of them.
AddressedKeys ==
    SharedLogicalKeys
        \cup {str_replace(get_key(key), key_prefix) : key \in SharedLogicalKeys}

\* The content of the server after cache.delete(key) has been called for
\* the keys of a list in turn; fail_delete[i] tells whether the i-th call
\* raised RedisError inside delete, which catches it.
RECURSIVE DeleteAll(_, _, _, _)
DeleteAll(mgr, st, keys, fail_delete) ==
    IF keys = <<>> THEN st
    ELSE DeleteAll(mgr,
                   CacheManager_delete(mgr, st, Head(keys),
                                       Head(fail_delete)).store,
                   Tail(keys), Tail(fail_delete))

\* invalidate_cache(pattern).
invalidate_cache(mgr, st, pattern, fail_keys, fail_delete, order) ==
    IF ~mgr.configured THEN Return(PyBool(FALSE), st, 0, 0)
    ELSE
    LET listed == CacheManager_keys(mgr, st, pattern, fail_keys, order)
        keys == listed.result.names
        n == Len(keys)
        flags == SubSeq(fail_delete, 1, n)
    IN  IF keys = <<>>
        THEN Return(PyBool(TRUE), st, listed.store_calls, listed.store_errors)
        ELSE Return(PyBool(TRUE), DeleteAll(mgr, st, keys, flags),
                    listed.store_calls + n,
                    listed.store_errors + CountTrue(flags))

SharedSet ==
    /\ Ready
    /\ \E key \in SharedLogicalKeys, ttl \in TTLArgs, fail \in StoreFailures :
           ManagerCall("set", key, <<>>,
                       CacheManager_set(cache_manager, store, key, PyList, ttl,
                                        FALSE, FALSE, fail))

SharedGet ==
    /\ Ready
    /\ \E key \in AddressedKeys, fail \in StoreFailures :
           ManagerCall("get", key, <<>>,
                       CacheManager_get(cache_manager, store, key, fail))

SharedDelete ==
    /\ Ready
    /\ \E key \in AddressedKeys, fail \in StoreFailures :
           ManagerCall("delete", key, <<>>,
                       CacheManager_delete(cache_manager, store, key, fail))

SharedKeys ==
    /\ Ready
    /\ \E pattern \in SharedPatterns, fail \in StoreFailures,
          order \in Orderings(DOMAIN store) :
           ManagerCall("keys", pattern, <<>>,
                       CacheManager_keys(cache_manager, store, pattern, fail, order))

SharedFlush ==
    /\ Ready
    /\ \E fail_keys \in StoreFailures, fail_delete \in StoreFailures,
          order \in Orderings(DOMAIN store) :
           ManagerCall("flush", <<>>, <<>>,
                       CacheManager_flush(cache_manager, store, fail_keys,
                                          fail_delete, order))

InvalidateCache ==
    /\ Ready
    /\ \E pattern \in SharedPatterns, fail_keys \in StoreFailures,
          order \in Orderings(DOMAIN store) :
           \E fail_delete \in [1..Len(order) -> StoreFailures] :
               ManagerCall("invalidate_cache", pattern, <<>>,
                           invalidate_cache(cache_manager, store, pattern,
                                            fail_keys, fail_delete, order))

\* The other application writes one of its keys, with or without expiry.
OtherApplicationWrites ==
    /\ last_call = NoCall
    /\ \E name \in ForeignKeys, ttl \in {NoExpiry} \cup (1..MaxTTL) :
           store' = Put(store, name, [data |-> ForeignBytes, ttl |-> ttl])
    /\ UNCHANGED <<cache_manager, last_call>>
    /\ UNCHANGED <<rbac_vars, backup_vars, local_vars>>

SharedStoreNext ==
    \/ CallerContinues
    \/ InitCache
    \/ SharedSet
    \/ SharedGet
    \/ SharedDelete
    \/ SharedKeys
    \/ SharedFlush
    \/ InvalidateCache
    \/ Tick
    \/ OtherApplicationWrites

SpecSharedStore == CacheSpecInit /\ [][SharedStoreNext]_vars

\* A key that starts with the given prefix.
StartsWith(name, prefix) ==
    /\ Len(name) >= Len(prefix)
    /\ SubSeq(name, 1, Len(prefix)) = prefix

\* C13: flush() on a connected manager whose server calls succeed removes
\* every key that starts with the configured prefix, and flush(), whatever
\* its outcome, leaves every key that does not start with the prefix present
\* with the same value and the same remaining time to live.
C13_FlushOnlyPrefix ==
    [][last_call'.op = "flush" =>
          /\ \A name \in DOMAIN store :
                 ~StartsWith(name, key_prefix) =>
                     /\ name \in DOMAIN store'
                     /\ store'[name] = store[name]
          /\ (cache_manager.redis_client /\ last_call'.store_errors = 0) =>
                 /\ last_call'.result = PyBool(TRUE)
                 /\ \A name \in DOMAIN store' : ~StartsWith(name, key_prefix)
          /\ DOMAIN store' \subseteq DOMAIN store]_vars

\* A flush that deleted keys of this instance while the other application
\* had a key on the server, which is still there with an expiry.
C13_Witness ==
    /\ last_call.op = "flush"
    /\ last_call.result = PyBool(TRUE)
    /\ last_call.store_calls = 2
    /\ \E name \in ForeignKeys :
           /\ name \in DOMAIN store
           /\ store[name].ttl # NoExpiry
    /\ \A name \in DOMAIN store : name \in ForeignKeys

\* A key with the prefix taken from its front only.
StripFront(name, prefix) == SubSeq(name, Len(prefix) + 1, Len(name))

\* The logical keys stored through this instance that match a pattern.
StoredLogicalKeys(st, pattern) ==
    {StripFront(name, key_prefix) :
        name \in {n \in DOMAIN st :
                     /\ StartsWith(n, key_prefix)
                     /\ GlobMatch(key_prefix \o pattern, n)}}

\* C14: keys(pattern) on a connected manager whose server call succeeds
\* returns exactly the logical keys stored through this instance that match
\* the pattern, the prefix stripped from the front only, so that every
\* returned key, prefixed again, is the key of a stored entry.
C14_KeysAreLogicalKeys ==
    [][(/\ last_call'.op = "keys"
        /\ cache_manager.redis_client
        /\ last_call'.store_errors = 0) =>
          LET names == last_call'.result.names
              listed_keys == {names[i] : i \in 1..Len(names)}
          IN  /\ listed_keys = StoredLogicalKeys(store, last_call'.key)
              /\ \A key \in listed_keys : get_key(key) \in DOMAIN store]_vars

\* The entry that a successful set(key, value, ttl) leaves under the
\* prefixed key: the serialized value, expiring after the seconds given or,
\* when none are given, after the default.
Written(st, key, value, ttl) ==
    LET entry == st[key_prefix \o key]
    IN  /\ (key_prefix \o key) \in DOMAIN st
        /\ entry.data = serialize(cache_manager.serialize_method, value).value
        /\ entry.ttl \in (IF ttl = NoneTTL THEN {default_ttl}
                          ELSE {ttl, default_ttl})

\* C15: on a connected manager whose server call succeeds, set with nx on a
\* present key and set with xx on an absent key leave the whole server
\* content unchanged and do not return True; set with nx on an absent key and
\* set with xx on a present key return True and store the value with the
\* given or default time to live, the other keys unchanged.
C15_ConditionalSet ==
    (Ready /\ cache_manager.redis_client) =>
        \A key \in LogicalKeys, value \in PyValues, ttl \in TTLArgs :
            LET present == (key_prefix \o key) \in DOMAIN store
                if_absent == CacheManager_set(cache_manager, store, key, value,
                                              ttl, TRUE, FALSE, FALSE)
                if_present == CacheManager_set(cache_manager, store, key, value,
                                               ttl, FALSE, TRUE, FALSE)
                Refused(call) == /\ call.store = store
                                 /\ call.result = PyValue(None)
                Wrote(call) ==
                    /\ call.result = PyBool(TRUE)
                    /\ Written(call.store, key, value, ttl)
                    /\ OtherKeysUnchanged(store, call.store, key_prefix \o key)
            IN  if_absent.raised = None =>
                    /\ if_present.raised = None
                    /\ IF present THEN Refused(if_absent) /\ Wrote(if_present)
                       ELSE Wrote(if_absent) /\ Refused(if_present)

\* A set that was refused because of nx: it returned None and the key is on
\* the server.
C15_Witness ==
    /\ last_call.op = "set"
    /\ last_call.raised = None
    /\ last_call.store_errors = 0
    /\ last_call.result = PyValue(None)
    /\ (key_prefix \o last_call.key) \in DOMAIN store

\* C16: ttl(key) returns the remaining seconds of a key that has an expiry
\* and returns -1 when the key has no expiry, when the key does not exist and
\* when the server is unavailable (no connection, or the call fails).
C16_TtlMinusOne ==
    [][last_call'.op = "ttl" =>
          LET name == key_prefix \o last_call'.key
              unavailable == \/ ~cache_manager.redis_client
                             \/ last_call'.store_errors > 0
          IN  /\ last_call'.raised = None
              /\ store' = store
              /\ IF /\ ~unavailable
                    /\ name \in DOMAIN store
                    /\ store[name].ttl # NoExpiry
                 THEN last_call'.result = PyInt(store[name].ttl)
                 ELSE last_call'.result = PyInt(-1)]_vars

(***************************************************************************)
(* backup.py: the backup manager, its directory and its catalog.           *)
(* Time is counted in whole units of the clock; retention_days is in the   *)
(* same unit.                                                              *)
(***************************************************************************)

\* The last clock value explored.
MaxClock == 2

\* The number of create calls made.
MaxBackupCalls == 2

\* BackupConfig.retention_days: 30 unless given, taken small here.
retention_days == 1

\* BackupConfig.compression, as the module configures it.
compression == TRUE

\* BackupType and BackupStatus: member name -> value.
BackupType == [FULL |-> "full", INCREMENTAL |-> "incremental",
               DIFFERENTIAL |-> "differential"]

BackupStatus == [SUCCESS |-> "success", FAILED |-> "failed",
                 IN_PROGRESS |-> "in_progress", PARTIAL |-> "partial"]

\* BackupType(value) and BackupStatus(value): the member with that value.
EnumMember(enum, value) == CHOOSE name \in DOMAIN enum : enum[name] = value

\* The dataclass BackupInfo.
BackupInfo(backup_id, backup_type, timestamp, status, size_bytes, file_path, metadata) ==
    [backup_id |-> backup_id, backup_type |-> backup_type,
     timestamp |-> timestamp, status |-> status, size_bytes |-> size_bytes,
     file_path |-> file_path, metadata |-> metadata]

\* os.path.join(config.backup_dir, "backup_log.json"), as an item of the
\* backup directory.
backup_log_file == <<"backup_log.json">>

\* An item of the backup directory: a file or a directory, when it was last
\* modified, and what it holds.
Item(kind, mtime, content) == [kind |-> kind, mtime |-> mtime, content |-> content]

\* timestamp.strftime('%Y%m%d_%H%M%S'): the text of the time, to the unit of
\* the clock.
strftime(timestamp) == ToString(timestamp)

\* path.endswith('.gz').
EndsWithGz(path) == path # <<>> /\ path[Len(path)] = ".gz"

\* What a method of backup.py leaves behind: the record or records it
\* returns, the exception it lets through, and the directory and catalog
\* afterwards.
BackupOutcome(result, raised, dir, log) ==
    [result |-> result, raised |-> raised, backup_dir |-> dir,
     backup_log |-> log]

\* An outcome together with the bucket afterwards.
Mirrored(outcome, objects) ==
    [result |-> outcome.result, raised |-> outcome.raised,
     backup_dir |-> outcome.backup_dir, backup_log |-> outcome.backup_log,
     s3_objects |-> objects]

\* DatabaseBackup.create_backup: the id and the path are fixed before the
\* dump starts; dump_ok tells whether pg_dump returned 0.
DatabaseBackup_create_backup(dir, backup_type, now, dump_ok) ==
    LET backup_id == <<"db_", BackupType[backup_type], strftime(now)>>
        backup_file == backup_id \o <<".sql">>
                          \o (IF compression THEN <<".gz">> ELSE <<>>)
        \* pg_dump -f backup_path writes the plain dump under that name;
        \* _compress_file runs only for a path that does not end in .gz yet
        dumped == Put(dir, backup_file, Item("file", now, "sql"))
        compress == compression /\ ~EndsWithGz(backup_file)
        backup_path == IF compress THEN backup_file \o <<".gz">> ELSE backup_file
        written == IF compress
                   THEN Put(Remove(dumped, {backup_file}), backup_path,
                            Item("file", now, "gzip of sql"))
                   ELSE dumped
    IN  IF dump_ok
        THEN [info |-> BackupInfo(backup_id, backup_type, now, "SUCCESS", 1,
                                  backup_path,
                                  [compressed |-> compression]),
              backup_dir |-> written]
        ELSE [info |-> BackupInfo(backup_id, backup_type, now, "FAILED", 0,
                                  backup_file,
                                  [error |-> "pg_dump failed"]),
              backup_dir |-> dir]

\* FileBackup.create_backup: os.makedirs runs before the try block, so its
\* exception leaves the method; copy_ok tells whether the copying inside
\* the try block went through.
FileBackup_create_backup(dir, backup_type, now, makedirs_ok, copy_ok) ==
    LET backup_id == <<"files_", BackupType[backup_type], strftime(now)>>
        made == Put(dir, backup_id, Item("dir", now, "copies"))
    IN  IF ~makedirs_ok
        THEN [info |-> None, raised |-> "OSError", backup_dir |-> dir]
        ELSE IF copy_ok
        THEN [info |-> BackupInfo(backup_id, backup_type, now, "SUCCESS", 1,
                                  backup_id, [files_copied |-> 1]),
              raised |-> None, backup_dir |-> made]
        ELSE [info |-> BackupInfo(backup_id, backup_type, now, "FAILED", 0,
                                  backup_id, [error |-> "copy failed"]),
              raised |-> None, backup_dir |-> made]

\* The outcomes of one upload_file call: it goes through, it raises
\* ClientError, or it raises another exception.
UploadOutcomes == {"uploaded", "ClientError", "Exception"}

\* os.walk(path): the relative paths of the files under a directory of the
\* backup directory; a copied directory holds one file.
walk(dir, path) ==
    IF path \in DOMAIN dir /\ dir[path].kind = "dir" /\ dir[path].content = "copies"
    THEN {<<"copied file">>}
    ELSE {}

\* The keys under which upload_backup stores a record: s3_key for a file,
\* s3_key/relative_path for each file under a directory.
s3_keys(dir, info) ==
    LET s3_key == <<"backups/", BackupType[info.backup_type], "/">> \o info.backup_id
    IN  IF info.file_path \in DOMAIN dir /\ dir[info.file_path].kind = "file"
        THEN {s3_key}
        ELSE {s3_key \o <<"/">> \o relative_path :
                  relative_path \in walk(dir, info.file_path)}

\* S3Backup.upload_backup: ClientError is caught, other exceptions are not.
S3Backup_upload_backup(dir, objects, info, outcome) ==
    IF outcome = "uploaded"
    THEN [result |-> TRUE, raised |-> None,
          s3_objects |-> objects \cup s3_keys(dir, info)]
    ELSE IF outcome = "ClientError"
    THEN [result |-> FALSE, raised |-> None, s3_objects |-> objects]
    ELSE [result |-> FALSE, raised |-> outcome, s3_objects |-> objects]

\* S3Backup.download_backup: the objects whose key starts with
\* backups/<backup_id> are listed and fetched; ClientError is caught.
S3Backup_download_backup(client, objects, backup_id, outcome) ==
    LET Contents == {key \in objects : StartsWith(key, <<"backups/">> \o backup_id)}
    IN  IF ~client \/ outcome = "ClientError" \/ Contents = {}
        THEN [result |-> FALSE, fetched |-> {}]
        ELSE [result |-> TRUE, fetched |-> Contents]

\* The loop over the records in create_full_backup: the successful ones are
\* uploaded in order, until an upload raises; the exception raised, or None.
RECURSIVE UploadAll(_, _, _, _)
UploadAll(dir, objects, backups, outcomes) ==
    IF backups = <<>> THEN [raised |-> None, s3_objects |-> objects]
    ELSE IF Head(backups).status # "SUCCESS"
    THEN UploadAll(dir, objects, Tail(backups), Tail(outcomes))
    ELSE LET uploaded == S3Backup_upload_backup(dir, objects, Head(backups),
                                                Head(outcomes))
         IN  IF uploaded.raised # None
             THEN [raised |-> uploaded.raised, s3_objects |-> uploaded.s3_objects]
             ELSE UploadAll(dir, uploaded.s3_objects, Tail(backups), Tail(outcomes))

\* datetime.isoformat and datetime.fromisoformat.
isoformat(timestamp) == [iso |-> timestamp]

fromisoformat(text) == text.iso

\* The dict that _log_backups writes for a record.
backup_data(backup) ==
    [backup_id |-> backup.backup_id,
     backup_type |-> BackupType[backup.backup_type],
     timestamp |-> isoformat(backup.timestamp),
     status |-> BackupStatus[backup.status],
     size_bytes |-> backup.size_bytes,
     file_path |-> backup.file_path,
     metadata |-> backup.metadata]

\* The record that list_backups builds from a dict of the catalog.
backup_info(data) ==
    BackupInfo(data.backup_id, EnumMember(BackupType, data.backup_type),
               fromisoformat(data.timestamp),
               EnumMember(BackupStatus, data.status), data.size_bytes,
               data.file_path, data.metadata)

\* A _log_backups that writes the new dicts only.
log_backups_new_only(dir, log, backups, now) ==
    [backup_dir |-> Put(dir, backup_log_file, Item("file", now, "json")),
     backup_log |-> [i \in 1..Len(backups) |-> backup_data(backups[i])]]

\* BackupManager._log_backups: the catalog is read if it exists, the new
\* dicts are appended and the file is written.
log_backups(dir, log, backups, now) ==
    LET log_data == IF backup_log_file \in DOMAIN dir THEN log ELSE <<>>
    IN  [backup_dir |-> Put(dir, backup_log_file, Item("file", now, "json")),
         backup_log |-> log_data \o [i \in 1..Len(backups) |->
                                        backup_data(backups[i])]]

\* sorted(backups, key=timestamp, reverse=True): a stable sort, so records
\* with equal timestamps keep their order.
RECURSIVE sorted_reverse(_)
sorted_reverse(backups) ==
    IF backups = <<>> THEN <<>>
    ELSE LET before == sorted_reverse(SubSeq(backups, 1, Len(backups) - 1))
             last == backups[Len(backups)]
             ahead == SelectSeq(before,
                                LAMBDA b : b.timestamp >= last.timestamp)
             behind == SelectSeq(before,
                                 LAMBDA b : b.timestamp < last.timestamp)
         IN  ahead \o <<last>> \o behind

\* BackupManager.list_backups.
list_backups(dir, log) ==
    IF backup_log_file \in DOMAIN dir
    THEN sorted_reverse([i \in 1..Len(log) |-> backup_info(log[i])])
    ELSE <<>>

\* BackupManager.create_full_backup and create_incremental_backup, which
\* differ in the backup type only: the database backup at time now, the file
\* backup at time later, the uploads, the catalog.
create_backups(backup_type, dir, log, client, objects, now, later, dump_ok, makedirs_ok, copy_ok, outcomes) ==
    LET db_backup == DatabaseBackup_create_backup(dir, backup_type, now, dump_ok)
        file_backup == FileBackup_create_backup(db_backup.backup_dir, backup_type,
                                                later, makedirs_ok, copy_ok)
        backups == <<db_backup.info, file_backup.info>>
        uploads == IF client /\ file_backup.raised = None
                   THEN UploadAll(file_backup.backup_dir, objects, backups, outcomes)
                   ELSE [raised |-> None, s3_objects |-> objects]
        logged == log_backups(file_backup.backup_dir, log, backups, later)
    IN  IF file_backup.raised # None
        THEN Mirrored(BackupOutcome(<<>>, file_backup.raised,
                                    file_backup.backup_dir, log), objects)
        ELSE IF uploads.raised # None
        THEN Mirrored(BackupOutcome(<<>>, uploads.raised,
                                    file_backup.backup_dir, log), uploads.s3_objects)
        ELSE Mirrored(BackupOutcome(backups, None, logged.backup_dir,
                                    logged.backup_log), uploads.s3_objects)

\* An item whose modification time is at or before now - retention_days.
IsOld_or_at_cutoff(item, now) == item.mtime <= now - retention_days

\* An item whose modification time is before now - retention_days.
IsOld(item, now) == item.mtime < now - retention_days

\* The items that cleanup_old_backups removes: every old file, and every
\* old directory whose name starts with db_ or files_.
Removed(dir, now) ==
    {name \in DOMAIN dir :
        /\ IsOld(dir[name], now)
        /\ \/ dir[name].kind = "file"
           \/ /\ dir[name].kind = "dir"
              /\ Head(name) \in {"db_", "files_"}}

\* BackupManager.cleanup_old_backups.
cleanup_old_backups(dir, log, now) ==
    [backup_dir |-> Remove(dir, Removed(dir, now)),
     backup_log |-> IF backup_log_file \in Removed(dir, now) THEN <<>> ELSE log]

\* A call of a BackupManager method that ends at time later with the given
\* outcome; results holds what a create call returns.
BackupCall(op, outcome, later, results) ==
    /\ backup_call' = [op |-> op, raised |-> outcome.raised,
                       result |-> outcome.result]
    /\ backup_dir' = outcome.backup_dir
    /\ backup_log' = outcome.backup_log
    /\ returned' = returned \o results
    /\ clock' = later
    /\ s3_objects' = outcome.s3_objects
    /\ UNCHANGED <<s3_client, database>>
    /\ UNCHANGED <<rbac_vars, cache_vars, runs, local_vars>>

\* The outcomes of the uploads of one create call: none are drawn when no
\* bucket is configured.
UploadOutcomeLists ==
    IF s3_client THEN [1..2 -> UploadOutcomes] ELSE {<<"uploaded", "uploaded">>}

\* The clock values at which the file backup of a create call starts: the
\* one at which the database backup started, or the next.
Later == {clock, clock + 1} \cap (0..MaxClock)

\* No call is under way and another create call may be made.
BackupReady ==
    /\ backup_call = NoBackupCall
    /\ Len(returned) < MaxBackupCalls

CreateFullBackup ==
    /\ BackupReady
    /\ \E later \in Later, dump_ok \in BOOLEAN, makedirs_ok \in BOOLEAN,
          copy_ok \in BOOLEAN, outcomes \in UploadOutcomeLists :
           LET outcome == create_backups("FULL", backup_dir, backup_log,
                                         s3_client, s3_objects, clock, later,
                                         dump_ok, makedirs_ok, copy_ok, outcomes)
           IN  BackupCall("create_full_backup", outcome, later,
                          <<outcome.result>>)

CreateIncrementalBackup ==
    /\ BackupReady
    /\ \E later \in Later, dump_ok \in BOOLEAN, makedirs_ok \in BOOLEAN,
          copy_ok \in BOOLEAN, outcomes \in UploadOutcomeLists :
           LET outcome == create_backups("INCREMENTAL", backup_dir, backup_log,
                                         s3_client, s3_objects, clock, later,
                                         dump_ok, makedirs_ok, copy_ok, outcomes)
           IN  BackupCall("create_incremental_backup", outcome, later,
                          <<outcome.result>>)

ListBackups ==
    /\ backup_call = NoBackupCall
    /\ BackupCall("list_backups",
                  Mirrored(BackupOutcome(list_backups(backup_dir, backup_log),
                                         None, backup_dir, backup_log),
                           s3_objects),
                  clock, <<>>)

CleanupOldBackups ==
    /\ backup_call = NoBackupCall
    /\ LET cleaned == cleanup_old_backups(backup_dir, backup_log, clock)
       IN  BackupCall("cleanup_old_backups",
                      Mirrored(BackupOutcome(<<>>, None, cleaned.backup_dir,
                                             cleaned.backup_log),
                               s3_objects),
                      clock, <<>>)

\* The caller of the last call goes on.
BackupCallerContinues ==
    /\ backup_call # NoBackupCall
    /\ backup_call' = NoBackupCall
    /\ UNCHANGED <<clock, backup_dir, backup_log, s3_client, s3_objects, returned,
                   database>>
    /\ UNCHANGED <<rbac_vars, cache_vars, runs, local_vars>>

\* Time passes between two calls.
TimePasses ==
    /\ backup_call = NoBackupCall
    /\ clock < MaxClock
    /\ clock' = clock + 1
    /\ UNCHANGED <<backup_dir, backup_log, s3_client, s3_objects, returned,
                   database, backup_call>>
    /\ UNCHANGED <<rbac_vars, cache_vars, runs, local_vars>>

BackupSpecInit ==
    /\ role_permissions = ROLE_PERMISSIONS
    /\ resource_permissions = RESOURCE_PERMISSIONS
    /\ rbac_req = RBACRequest("none", None, None, <<>>, None, None)
    /\ rbac_pc = "idle"
    /\ rbac_result = None
    /\ CacheInit
    /\ BackupInit
    /\ ModelCacheInit
    /\ s3_client = FALSE

BackupNext ==
    \/ CreateFullBackup
    \/ CreateIncrementalBackup
    \/ ListBackups
    \/ CleanupOldBackups
    \/ BackupCallerContinues
    \/ TimePasses

SpecBackup == BackupSpecInit /\ [][BackupNext]_vars

\* The manager when only backups are made and listed.
CatalogNext ==
    \/ CreateFullBackup
    \/ CreateIncrementalBackup
    \/ ListBackups
    \/ BackupCallerContinues
    \/ TimePasses

SpecCatalog == BackupSpecInit /\ [][CatalogNext]_vars

\* The elements of a sequence of sequences, in order.
RECURSIVE Flatten(_)
Flatten(lists) ==
    IF lists = <<>> THEN <<>> ELSE Head(lists) \o Flatten(Tail(lists))

\* A record is among the records of a list.
Listed(info, backups) == \E i \in 1..Len(backups) : backups[i] = info

\* C17: a create_full_backup call raises nothing and returns two records,
\* the database record and then the file record, whatever the outcome of the
\* two backups; a failed record has the error message in its metadata and an
\* id made of the time at which the call started, and list_backups after the
\* call contains both records.
C17_TwoRecords ==
    [][backup_call'.op = "create_full_backup" =>
          LET backups == backup_call'.result
          IN  /\ backup_call'.raised = None
              /\ Len(backups) = 2
              /\ Head(backups[1].backup_id) = "db_"
              /\ Head(backups[2].backup_id) = "files_"
              /\ backups[1].backup_id = <<"db_", "full", strftime(clock)>>
              /\ \A i \in 1..2 :
                     /\ backups[i].backup_type = "FULL"
                     /\ backups[i].status \in {"SUCCESS", "FAILED"}
                     /\ backups[i].status = "FAILED" =>
                            "error" \in DOMAIN backups[i].metadata
                     /\ Listed(backups[i], list_backups(backup_dir', backup_log'))
         ]_vars

\* Two lists hold the same records the same number of times.
SameRecords(left, right) ==
    /\ Len(left) = Len(right)
    /\ \A i \in 1..Len(left) :
           Occurrences(left, left[i]) = Occurrences(right, left[i])

\* C18: when only create_full_backup and create_incremental_backup calls
\* have been made on a backup directory that was empty at first,
\* list_backups returns the records that these calls returned, each as
\* often as it was returned and with the status it was returned with, later
\* timestamps first.
C18_CatalogIsWhatWasReturned ==
    LET listing == list_backups(backup_dir, backup_log)
    IN  /\ SameRecords(listing, Flatten(returned))
        /\ \A i \in 1..Len(listing), j \in 1..Len(listing) :
               i < j => listing[i].timestamp >= listing[j].timestamp
        /\ backup_call.op = "list_backups" => backup_call.result = listing

\* A listing of four records of two calls, failed and successful ones, whose
\* order is not the order in which they were returned.
C18_Witness ==
    /\ backup_call.op = "list_backups"
    /\ Len(backup_call.result) = 2 * MaxBackupCalls
    /\ backup_call.result # Flatten(returned)
    /\ \E i, j \in 1..Len(backup_call.result) :
           /\ backup_call.result[i].status = "FAILED"
           /\ backup_call.result[j].status = "SUCCESS"
    /\ backup_call.result[1].timestamp > backup_call.result[4].timestamp

\* C19: cleanup_old_backups leaves the catalog as it is: whatever the
\* backup directory holds and whatever the clock shows, list_backups returns
\* after a cleanup what it returned before, the records of removed
\* artifacts included.
C19_CleanupKeepsCatalog ==
    LET cleaned == cleanup_old_backups(backup_dir, backup_log, clock)
    IN  list_backups(cleaned.backup_dir, cleaned.backup_log)
            = list_backups(backup_dir, backup_log)

\* The backup artifacts of a directory: the database dump files and the
\* file-backup directories.
Artifacts(dir) ==
    {name \in DOMAIN dir :
        \/ Head(name) = "db_" /\ dir[name].kind = "file"
        \/ Head(name) = "files_" /\ dir[name].kind = "dir"}

\* C20: cleanup_old_backups removes every backup artifact whose
\* modification time is earlier than the clock minus retention_days and
\* keeps, as it is, every artifact whose modification time is not.
C20_Retention ==
    [][backup_call'.op = "cleanup_old_backups" =>
          \A name \in Artifacts(backup_dir) :
              IF backup_dir[name].mtime < clock - retention_days
              THEN name \notin DOMAIN backup_dir'
              ELSE /\ name \in DOMAIN backup_dir'
                   /\ backup_dir'[name] = backup_dir[name]]_vars

\* A cleanup after which the artifact of a returned record is gone and
\* another artifact, written exactly retention_days before, is still there.
C20_Witness ==
    /\ backup_call.op = "cleanup_old_backups"
    /\ \E i \in 1..Len(Flatten(returned)) :
           /\ Flatten(returned)[i].status = "SUCCESS"
           /\ Flatten(returned)[i].file_path \notin DOMAIN backup_dir
    /\ \E name \in Artifacts(backup_dir) :
           backup_dir[name].mtime = clock - retention_days

\* C21: no two records of the catalog have the same backup_id.
C21_UniqueIds ==
    \A i \in 1..Len(backup_log), j \in 1..Len(backup_log) :
        i # j => backup_log[i].backup_id # backup_log[j].backup_id

(***************************************************************************)
(* backup.py: restoring.                                                   *)
(***************************************************************************)

\* The texts that the first symbol of an item's name starts with, as far as
\* _find_backup_files and _find_backup_dirs ask.
StartsOf == [db_ |-> {"db", "db_"}, files_ |-> {"files", "files_"}]

\* item.startswith(prefix).
item_startswith(item, prefix) ==
    /\ Head(item) \in DOMAIN StartsOf
    /\ prefix \in StartsOf[Head(item)]

\* backup_id in item: the id occurs in the name.
id_in_item(backup_id, item) ==
    \E k \in 1..(Len(item) - Len(backup_id) + 1) :
        SubSeq(item, k, k + Len(backup_id) - 1) = backup_id

\* BackupManager._find_backup_files: the matching items, which os.listdir
\* gives in no particular order.
find_backup_files(dir, backup_id, prefix) ==
    {item \in DOMAIN dir :
        item_startswith(item, prefix) /\ id_in_item(backup_id, item)}

\* BackupManager._find_backup_dirs.
find_backup_dirs(dir, backup_id, prefix) ==
    {item \in DOMAIN dir :
        /\ dir[item].kind = "dir"
        /\ item_startswith(item, prefix)
        /\ id_in_item(backup_id, item)}

\* What a restore leaves behind: what it returns, the directory and the
\* database afterwards, and what psql was given to replay, if anything.
Restored(result, dir, db, psql_input) ==
    [result |-> result, backup_dir |-> dir, database |-> db,
     psql_input |-> psql_input]

\* What the database holds after psql has replayed a file.
Replayed(db, content) == IF content = "sql" THEN "restored dump" ELSE db

\* DatabaseBackup.restore_backup: a path ending in .gz is decompressed into
\* a temporary file next to it, which is opened for writing before the
\* first read of the archive; psql_ok tells whether psql returned 0.
DatabaseBackup_restore_backup(dir, db, backup_path, psql_ok, now) ==
    LET temp_path == str_replace(backup_path, <<".gz">>)
    IN  IF backup_path \notin DOMAIN dir THEN Restored(FALSE, dir, db, None)
        ELSE IF EndsWithGz(backup_path)
        THEN IF dir[backup_path].content # "gzip of sql"
             THEN Restored(FALSE, Put(dir, temp_path, Item("file", now, "empty")),
                           db, None)
             ELSE Restored(psql_ok, dir, IF psql_ok THEN Replayed(db, "sql") ELSE db,
                           "sql")
        ELSE Restored(psql_ok, dir,
                      IF psql_ok THEN Replayed(db, dir[backup_path].content) ELSE db,
                      dir[backup_path].content)

\* BackupManager.restore_from_backup for the scopes database and files;
\* first is the item that heads the list of matching files.
restore_scope(dir, db, backup_id, restore_type, first, psql_ok, now) ==
    IF restore_type = "database"
    THEN IF find_backup_files(dir, backup_id, "db") = {}
         THEN Restored(FALSE, dir, db, None)
         ELSE DatabaseBackup_restore_backup(dir, db, first, psql_ok, now)
    ELSE Restored(find_backup_dirs(dir, backup_id, "files") # {}, dir, db, None)

\* An id is found in every item that has some element of the id: the test
\* "backup_id in item" weakened to a shared part.
id_shares_part(backup_id, item) ==
    \E k \in 1..Len(item) : \E j \in 1..Len(backup_id) : item[k] = backup_id[j]

\* _find_backup_files and _find_backup_dirs with the weakened test.
restore_by_shared_part(dir, db, backup_id, restore_type, first, psql_ok, now) ==
    LET files == {item \in DOMAIN dir : /\ item_startswith(item, "db")
                                        /\ id_shares_part(backup_id, item)}
        dirs == {item \in DOMAIN dir : /\ dir[item].kind = "dir"
                                       /\ item_startswith(item, "files")
                                       /\ id_shares_part(backup_id, item)}
        db_success == IF files = {} THEN Restored(FALSE, dir, db, None)
                      ELSE DatabaseBackup_restore_backup(
                               dir, db, IF first \in files THEN first
                                        ELSE CHOOSE item \in files : TRUE,
                               psql_ok, now)
    IN  IF restore_type = "database" THEN db_success
        ELSE IF restore_type = "files" THEN Restored(dirs # {}, dir, db, None)
        ELSE [db_success EXCEPT !.result = db_success.result /\ dirs # {}]

\* A restore whose full scope returns what the database scope returned.
restore_database_decides(dir, db, backup_id, restore_type, first, psql_ok, now) ==
    IF restore_type \in {"database", "files"}
    THEN restore_scope(dir, db, backup_id, restore_type, first, psql_ok, now)
    ELSE LET db_success == restore_scope(dir, db, backup_id, "database", first,
                                         psql_ok, now)
             file_success == restore_scope(db_success.backup_dir,
                                           db_success.database, backup_id,
                                           "files", first, psql_ok, now)
         IN  [file_success EXCEPT !.result = db_success.result,
                                  !.psql_input = db_success.psql_input]

\* BackupManager.restore_from_backup: the full scope restores the database,
\* then the files, and returns the conjunction.
restore_from_backup(dir, db, backup_id, restore_type, first, psql_ok, now) ==
    IF restore_type \in {"database", "files"}
    THEN restore_scope(dir, db, backup_id, restore_type, first, psql_ok, now)
    ELSE LET db_success == restore_scope(dir, db, backup_id, "database", first,
                                         psql_ok, now)
             file_success == restore_scope(db_success.backup_dir,
                                           db_success.database, backup_id,
                                           "files", first, psql_ok, now)
         IN  [file_success EXCEPT
                 !.result = db_success.result /\ file_success.result,
                 !.psql_input = db_success.psql_input]

\* The ids that restore_from_backup is called with: the ids of the records
\* returned so far, and what follows db_ or files_ in them.
RestoreIds ==
    LET ids == {Flatten(returned)[i].backup_id : i \in 1..Len(Flatten(returned))}
    IN  ids \cup {Tail(id) : id \in ids}

\* The items that may head the list of files matching an id.
FirstFiles(backup_id) ==
    IF find_backup_files(backup_dir, backup_id, "db") = {} THEN {<<>>}
    ELSE find_backup_files(backup_dir, backup_id, "db")

\* Whether psql returns 0, drawn when psql may be run.
PsqlOutcomes(restore_type, backup_id) ==
    IF restore_type = "files" \/ find_backup_files(backup_dir, backup_id, "db") = {}
    THEN {TRUE}
    ELSE BOOLEAN

RestoreFromBackup ==
    /\ backup_call = NoBackupCall
    /\ \E backup_id \in RestoreIds, restore_type \in {"database", "files", "full"} :
         \E first \in FirstFiles(backup_id), psql_ok \in PsqlOutcomes(restore_type, backup_id) :
           LET restored == restore_from_backup(backup_dir, database, backup_id,
                                               restore_type, first, psql_ok, clock)
           IN  /\ backup_call' = [op |-> "restore_from_backup", raised |-> None,
                                  result |-> <<[restore_type |-> restore_type,
                                                success |-> restored.result,
                                                psql_input |-> restored.psql_input]>>]
               /\ backup_dir' = restored.backup_dir
               /\ database' = restored.database
               /\ UNCHANGED <<clock, backup_log, s3_client, s3_objects, returned>>
               /\ UNCHANGED <<rbac_vars, cache_vars, runs, local_vars>>

\* A manager without a bucket on an empty backup directory.
RestoreSpecInit ==
    /\ role_permissions = ROLE_PERMISSIONS
    /\ resource_permissions = RESOURCE_PERMISSIONS
    /\ rbac_req = RBACRequest("none", None, None, <<>>, None, None)
    /\ rbac_pc = "idle"
    /\ rbac_result = None
    /\ CacheInit
    /\ BackupInit
    /\ ModelCacheInit
    /\ s3_client = FALSE

\* Create calls while one more create call may still be made after them:
\* the restores are followed over one create call less than the catalog is.
CreateFullBackupToRestore ==
    /\ Len(returned) + 1 < MaxBackupCalls
    /\ CreateFullBackup

CreateIncrementalBackupToRestore ==
    /\ Len(returned) + 1 < MaxBackupCalls
    /\ CreateIncrementalBackup

\* The manager when backups are made and restored.
RestoreNext ==
    \/ CreateFullBackupToRestore
    \/ CreateIncrementalBackupToRestore
    \/ RestoreFromBackup
    \/ BackupCallerContinues

SpecRestore == RestoreSpecInit /\ [][RestoreNext]_vars

\* C22: restore_from_backup with the full scope returns true exactly when
\* the database restore for the id and the files restore for the same id,
\* made after it, return true, and it leaves the directory and the database
\* as these two left them, whichever of them failed.
C22_FullRestore ==
    backup_call = NoBackupCall =>
        \A backup_id \in RestoreIds, psql_ok \in BOOLEAN :
            \A first \in FirstFiles(backup_id) :
                LET db_success == restore_from_backup(backup_dir, database, backup_id,
                                                      "database", first, psql_ok, clock)
                    file_success == restore_from_backup(db_success.backup_dir,
                                                        db_success.database, backup_id,
                                                        "files", first, psql_ok, clock)
                    full == restore_from_backup(backup_dir, database, backup_id,
                                                "full", first, psql_ok, clock)
                IN  /\ full.result = (db_success.result /\ file_success.result)
                    /\ full.backup_dir = file_success.backup_dir
                    /\ full.database = db_success.database
                    /\ file_success.database = db_success.database

\* A full restore that returned false although psql had replayed a file:
\* the files restore found no directory for the id.
C22_Witness ==
    /\ backup_call.op = "restore_from_backup"
    /\ backup_call.raised = None
    /\ backup_call.result[1].restore_type = "full"
    /\ ~backup_call.result[1].success
    /\ backup_call.result[1].psql_input # None

\* C23: with compression enabled, the file at the file_path of every
\* database record with status success is a gzip-compressed dump, and
\* restore_from_backup with the database scope for the record's id hands
\* the plain dump to psql and returns true when psql succeeds.
C23_DatabaseRoundTrip ==
    backup_call = NoBackupCall =>
        \A i \in 1..Len(Flatten(returned)) :
            LET info == Flatten(returned)[i]
            IN  (Head(info.backup_id) = "db_" /\ info.status = "SUCCESS") =>
                    /\ backup_dir[info.file_path].content = "gzip of sql"
                    /\ \A first \in FirstFiles(info.backup_id) :
                           LET restored == restore_from_backup(
                                               backup_dir, database, info.backup_id,
                                               "database", first, TRUE, clock)
                           IN  /\ restored.result
                               /\ restored.psql_input = "sql"

\* C30: restore_from_backup with the full scope returns false for the id
\* of every record that create_full_backup or create_incremental_backup
\* returned, whichever file os.listdir puts first and whether or not psql
\* succeeds: no id of a record is in the name of both a db item and a
\* files directory.
C30_FullRestoreByRecordIdFails ==
    backup_call = NoBackupCall =>
        \A i \in 1..Len(Flatten(returned)) :
            LET backup_id == Flatten(returned)[i].backup_id
            IN  /\ Head(backup_id) \in {"db_", "files_"}
                /\ \/ find_backup_files(backup_dir, backup_id, "db") = {}
                   \/ find_backup_dirs(backup_dir, backup_id, "files") = {}
                /\ \A first \in FirstFiles(backup_id), psql_ok \in BOOLEAN :
                       ~restore_from_backup(backup_dir, database, backup_id, "full",
                                            first, psql_ok, clock).result

\* A full restore for the id of a database record returned false after
\* psql had replayed a file, while the dump and the files directory of the
\* same create call are both in the backup directory.
C30_Witness ==
    /\ backup_call.op = "restore_from_backup"
    /\ backup_call.result[1].restore_type = "full"
    /\ ~backup_call.result[1].success
    /\ backup_call.result[1].psql_input = "empty"
    /\ \E i \in 1..Len(returned) :
           /\ Len(returned[i]) = 2
           /\ returned[i][1].status = "SUCCESS"
           /\ returned[i][2].status = "SUCCESS"
           /\ returned[i][1].file_path \in DOMAIN backup_dir
           /\ returned[i][2].file_path \in DOMAIN backup_dir

\* The manager with a bucket configured: backups are made and mirrored, and
\* S3Backup.download_backup is called for the id of a record.
DownloadBackup ==
    /\ backup_call = NoBackupCall
    /\ \E i \in 1..Len(Flatten(returned)), outcome \in {"downloaded", "ClientError"} :
           LET backup_id == Flatten(returned)[i].backup_id
               downloaded == S3Backup_download_backup(s3_client, s3_objects,
                                                      backup_id, outcome)
           IN  backup_call' = [op |-> "download_backup", raised |-> None,
                               result |-> <<[backup_id |-> backup_id,
                                             success |-> downloaded.result,
                                             fetched |-> downloaded.fetched]>>]
    /\ UNCHANGED <<clock, backup_dir, backup_log, s3_client, s3_objects, returned,
                   database>>
    /\ UNCHANGED <<rbac_vars, cache_vars, runs, local_vars>>

MirrorSpecInit ==
    /\ role_permissions = ROLE_PERMISSIONS
    /\ resource_permissions = RESOURCE_PERMISSIONS
    /\ rbac_req = RBACRequest("none", None, None, <<>>, None, None)
    /\ rbac_pc = "idle"
    /\ rbac_result = None
    /\ CacheInit
    /\ BackupInit
    /\ ModelCacheInit
    /\ s3_client = TRUE

MirrorNext ==
    \/ CreateFullBackup
    \/ CreateIncrementalBackup
    \/ DownloadBackup
    \/ BackupCallerContinues

SpecMirror == MirrorSpecInit /\ [][MirrorNext]_vars

\* The objects that the uploads of the create calls so far have stored for
\* a record are in the bucket.
Uploaded(info) == s3_keys(backup_dir, info) \subseteq s3_objects

\* C24: every object in the bucket has a key backups/<type>/<backup_id> or
\* backups/<type>/<backup_id>/<relative path> of a returned record, and
\* download_backup for the id of a record whose objects are in the bucket
\* fetches them all and returns true when the bucket answers.
C24_MirrorRoundTrip ==
    backup_call = NoBackupCall =>
        /\ \A key \in s3_objects :
               /\ Len(key) >= 6
               /\ key[1] = "backups/"
               /\ \E type \in DOMAIN BackupType : key[2] = BackupType[type]
               /\ key[3] = "/"
               /\ key[4] \in {"db_", "files_"}
        /\ \A i \in 1..Len(Flatten(returned)) :
               LET info == Flatten(returned)[i]
                   downloaded == S3Backup_download_backup(s3_client, s3_objects,
                                                          info.backup_id, "downloaded")
               IN  (info.status = "SUCCESS" /\ Uploaded(info)) =>
                       /\ downloaded.result
                       /\ s3_keys(backup_dir, info) \subseteq downloaded.fetched

\* C25: a create call in which the file backup's os.makedirs went through
\* raises nothing, returns two records and appends two records to the
\* catalog, whatever the outcome of the uploads, and stores no object for a
\* record whose status is not success.
C25_UploadFailureIsContained ==
    [][(/\ backup_call'.op \in {"create_full_backup", "create_incremental_backup"}
        /\ backup_call'.raised # "OSError")
       => /\ backup_call'.raised = None
          /\ Len(backup_call'.result) = 2
          /\ Len(backup_log') = Len(backup_log) + 2
          /\ \A i \in 1..Len(backup_call'.result) :
                 backup_call'.result[i].status # "SUCCESS" =>
                     s3_keys(backup_dir', backup_call'.result[i])
                         \cap (s3_objects' \ s3_objects) = {}]_vars

\* Two processes each make one create call over the same backup directory.
\* The steps of a call are the backups up to the call of _log_backups, the
\* reading of backup_log.json, the opening of it for writing, which
\* truncates it, and the json.dump into it.

\* backup_log.json is open for writing and holds no JSON document yet.
LogTruncated == \E run \in Runs : runs[run].pc = "opened"

\* create_full_backup or create_incremental_backup up to self._log_backups.
RunMakesBackups(run) ==
    /\ runs[run].pc = "idle"
    /\ \E backup_type \in {"FULL", "INCREMENTAL"}, later \in Later,
          dump_ok \in BOOLEAN, makedirs_ok \in BOOLEAN, copy_ok \in BOOLEAN :
           LET db_backup == DatabaseBackup_create_backup(backup_dir, backup_type,
                                                         clock, dump_ok)
               file_backup == FileBackup_create_backup(db_backup.backup_dir,
                                                       backup_type, later,
                                                       makedirs_ok, copy_ok)
           IN  /\ backup_dir' = file_backup.backup_dir
               /\ clock' = later
               /\ IF file_backup.raised # None
                  THEN /\ runs' = [runs EXCEPT ![run].pc = "done",
                                               ![run].raised = file_backup.raised]
                       /\ returned' = Append(returned, <<>>)
                  ELSE /\ runs' = [runs EXCEPT ![run].pc = "made",
                                               ![run].backups = <<db_backup.info,
                                                                  file_backup.info>>]
                       /\ UNCHANGED returned
    /\ UNCHANGED <<backup_log, s3_client, s3_objects, database, backup_call>>
    /\ UNCHANGED <<rbac_vars, cache_vars, local_vars>>

\* _log_backups reads the existing log: json.load raises on a file that
\* another process has truncated and not written yet.
RunReadsLog(run) ==
    /\ runs[run].pc = "made"
    /\ IF backup_log_file \in DOMAIN backup_dir /\ LogTruncated
       THEN /\ runs' = [runs EXCEPT ![run].pc = "done",
                                    ![run].raised = "JSONDecodeError"]
            /\ returned' = Append(returned, <<>>)
       ELSE /\ runs' = [runs EXCEPT ![run].pc = "read",
                                    ![run].log_data =
                                        IF backup_log_file \in DOMAIN backup_dir
                                        THEN backup_log ELSE <<>>]
            /\ UNCHANGED returned
    /\ UNCHANGED <<clock, backup_dir, backup_log, s3_client, s3_objects, database,
                   backup_call>>
    /\ UNCHANGED <<rbac_vars, cache_vars, local_vars>>

\* _log_backups opens the log with mode 'w'.
RunOpensLog(run) ==
    /\ runs[run].pc = "read"
    /\ runs' = [runs EXCEPT ![run].pc = "opened"]
    /\ backup_dir' = Put(backup_dir, backup_log_file, Item("file", clock, "json"))
    /\ backup_log' = <<>>
    /\ UNCHANGED <<clock, s3_client, s3_objects, returned, database, backup_call>>
    /\ UNCHANGED <<rbac_vars, cache_vars, local_vars>>

\* _log_backups dumps what it read and its own records, and the create call
\* returns its records.
RunDumpsLog(run) ==
    /\ runs[run].pc = "opened"
    /\ runs' = [runs EXCEPT ![run].pc = "done"]
    /\ backup_log' = runs[run].log_data
                         \o [i \in 1..Len(runs[run].backups) |->
                                backup_data(runs[run].backups[i])]
    /\ returned' = Append(returned, runs[run].backups)
    /\ UNCHANGED <<clock, backup_dir, s3_client, s3_objects, database, backup_call>>
    /\ UNCHANGED <<rbac_vars, cache_vars, local_vars>>

RunsSpecInit ==
    /\ role_permissions = ROLE_PERMISSIONS
    /\ resource_permissions = RESOURCE_PERMISSIONS
    /\ rbac_req = RBACRequest("none", None, None, <<>>, None, None)
    /\ rbac_pc = "idle"
    /\ rbac_result = None
    /\ CacheInit
    /\ BackupInit
    /\ ModelCacheInit
    /\ s3_client = FALSE

RunsNext ==
    \E run \in Runs :
        \/ RunMakesBackups(run)
        \/ RunReadsLog(run)
        \/ RunOpensLog(run)
        \/ RunDumpsLog(run)

SpecRuns == RunsSpecInit /\ [][RunsNext]_vars

\* C26: when both processes have finished their create call, the catalog
\* contains every record that either call returned.
C26_NoLostRecord ==
    (\A run \in Runs : runs[run].pc = "done") =>
        \A i \in 1..Len(Flatten(returned)) :
            Listed(backup_data(Flatten(returned)[i]), backup_log)

(***************************************************************************)
(* Two concurrent calls of one cached() wrapper with the same arguments.   *)
(* The steps of a call are cache.get, the call of the wrapped function and *)
(* cache.set; the calls of the two callers interleave between the steps.   *)
(***************************************************************************)

\* The key both callers derive.
herd_key == cache_key_str("x=1")

\* cache.get(cache_key_str): a hit returns the cached result.
WrapperGets(caller) ==
    /\ callers[caller].pc = "idle"
    /\ \E fail_get \in StoreFailures :
           LET cached_result == CacheManager_get(cache_manager, store, herd_key,
                                                 fail_get)
           IN  callers' =
                   [callers EXCEPT ![caller] =
                       IF cached_result.raised # None
                       THEN [@ EXCEPT !.pc = "done",
                                      !.raised = cached_result.raised]
                       ELSE IF cached_result.result # PyValue(None)
                       THEN [@ EXCEPT !.pc = "done",
                                      !.result = cached_result.result]
                       ELSE [@ EXCEPT !.pc = "missed"]]
    /\ UNCHANGED <<cache_manager, store, last_call, model_cache, model_time>>
    /\ UNCHANGED <<rbac_vars, backup_vars>>

\* result = func(*args, **kwargs).
WrapperExecutes(caller) ==
    /\ callers[caller].pc = "missed"
    /\ \E func_outcome \in FuncOutcomes :
           callers' =
               [callers EXCEPT ![caller] =
                   IF func_outcome.raised # None
                   THEN [@ EXCEPT !.pc = "done", !.invoked = 1,
                                  !.raised = func_outcome.raised]
                   ELSE [@ EXCEPT !.pc = "executed", !.invoked = 1,
                                  !.value = func_outcome.value]]
    /\ UNCHANGED <<cache_manager, store, last_call, model_cache, model_time>>
    /\ UNCHANGED <<rbac_vars, backup_vars>>

\* cache.set(cache_key_str, result, ttl) and return result.
WrapperSets(caller) ==
    /\ callers[caller].pc = "executed"
    /\ \E ttl \in TTLArgs, fail_set \in StoreFailures :
           LET stored == CacheManager_set(cache_manager, store, herd_key,
                                          callers[caller].value, ttl,
                                          FALSE, FALSE, fail_set)
           IN  /\ store' = stored.store
               /\ callers' =
                      [callers EXCEPT ![caller] =
                          IF stored.raised # None
                          THEN [@ EXCEPT !.pc = "done", !.raised = stored.raised]
                          ELSE [@ EXCEPT !.pc = "done",
                                         !.result = PyValue(callers[caller].value),
                                         !.set_reply = stored.result]]
    /\ UNCHANGED <<cache_manager, last_call, model_cache, model_time>>
    /\ UNCHANGED <<rbac_vars, backup_vars>>

\* init_cache has been called and the server answered the ping.
HerdSpecInit ==
    /\ role_permissions = ROLE_PERMISSIONS
    /\ resource_permissions = RESOURCE_PERMISSIONS
    /\ rbac_req = RBACRequest("none", None, None, <<>>, None, None)
    /\ rbac_pc = "idle"
    /\ rbac_result = None
    /\ \E method \in SerializeMethods :
           cache_manager = [configured |-> TRUE, redis_client |-> TRUE,
                            serialize_method |-> method]
    /\ store = [name \in {} |-> None]
    /\ last_call = NoCall
    /\ callers = [caller \in Callers |-> IdleCaller]
    /\ BackupInit
    /\ ModelCacheInit
    /\ s3_client = FALSE

HerdNext ==
    \E caller \in Callers :
        \/ WrapperGets(caller)
        \/ WrapperExecutes(caller)
        \/ WrapperSets(caller)

SpecHerd == HerdSpecInit /\ [][HerdNext]_vars

\* C27: a caller that missed executes the wrapped function whatever the
\* other caller has done since, and when its cache.set returns it has the
\* result of its own execution; unless the server call failed, the entry
\* under the key is then the one this caller wrote, whether or not the
\* other caller had written one before.
C27_ThunderingHerd ==
    [][\A caller \in Callers :
           /\ callers[caller].pc = "missed" => ENABLED WrapperExecutes(caller)
           /\ (/\ callers[caller].pc = "executed"
               /\ callers'[caller].pc = "done"
               /\ callers'[caller].raised = None)
              => /\ callers'[caller].result = PyValue(callers[caller].value)
                 /\ callers'[caller].invoked = 1
                 /\ callers'[caller].set_reply \in {PyBool(TRUE), PyBool(FALSE)}
                 /\ callers'[caller].set_reply = PyBool(TRUE) =>
                        /\ get_key(herd_key) \in DOMAIN store'
                        /\ store'[get_key(herd_key)].data =
                               serialize(cache_manager.serialize_method,
                                         callers[caller].value).value]_vars

\* Both callers missed, both executed the function with different results,
\* both stored, and the entry is the second caller's.
C27_Witness ==
    /\ \A caller \in Callers :
           /\ callers[caller].pc = "done"
           /\ callers[caller].invoked = 1
           /\ callers[caller].raised = None
           /\ callers[caller].set_reply = PyBool(TRUE)
           /\ callers[caller].result = PyValue(callers[caller].value)
    /\ callers["first"].value # callers["second"].value
    /\ cache_manager.serialize_method = "pickle"
    /\ store[get_key(herd_key)].data = pickle_dumps(callers["second"].value).value

\* C28: when mset has returned true, every key of the mapping is in the
\* store with an expiry.
C28_MsetSetsExpiry ==
    (/\ last_call.op = "mset"
     /\ last_call.raised = None
     /\ last_call.result = PyBool(TRUE))
    => \A i \in 1..Len(last_call.keys) :
           /\ get_key(last_call.keys[i]) \in DOMAIN store
           /\ store[get_key(last_call.keys[i])].ttl # NoExpiry

(***************************************************************************)
(* ModelCache of ai_services/shared/utils.py.  cache maps the cached keys  *)
(* to their values; access_times is the dict of last access times as the   *)
(* list of its items in insertion order, which is the order min() goes     *)
(* through.                                                                *)
(***************************************************************************)

\* ModelCache.max_size: a constructor parameter, 10 unless given, taken
\* small here.
max_size == 2

\* Largest value time.time() returns.
MaxModelTime == 2

\* One key more than the cache can hold.
ModelKeys == 1..(max_size + 1)

ModelValues == {"model A", "model B"}

\* self.access_times[key] = time.time(): a key that is in the dict keeps its
\* place, a new key goes to the end.
Touch(access_times, key, now) ==
    IF \E i \in 1..Len(access_times) : access_times[i].key = key
    THEN [i \in 1..Len(access_times) |->
             IF access_times[i].key = key THEN [key |-> key, time |-> now]
             ELSE access_times[i]]
    ELSE Append(access_times, [key |-> key, time |-> now])

\* min(self.access_times, key=self.access_times.get): the first key, in the
\* order of the dict, whose time is the smallest.
lru_key(access_times) ==
    access_times[CHOOSE i \in 1..Len(access_times) :
                     \A j \in 1..Len(access_times) :
                         /\ access_times[i].time <= access_times[j].time
                         /\ j < i => access_times[j].time > access_times[i].time].key

\* del self.access_times[lru_key].
Without(access_times, key) ==
    SelectSeq(access_times, LAMBDA item : item.key # key)

\* ModelCache.get.
ModelCache_get(mc, key, now) ==
    IF key \in DOMAIN mc.cache
    THEN [model_cache |-> [mc EXCEPT !.access_times = Touch(@, key, now)],
          result |-> mc.cache[key]]
    ELSE [model_cache |-> mc, result |-> None]

\* ModelCache.put.
ModelCache_put(mc, key, value, now) ==
    LET evict == Cardinality(DOMAIN mc.cache) >= max_size
        kept == IF evict
                THEN [cache |-> Remove(mc.cache, {lru_key(mc.access_times)}),
                      access_times |-> Without(mc.access_times,
                                               lru_key(mc.access_times))]
                ELSE mc
    IN  [cache |-> Put(kept.cache, key, value),
         access_times |-> Touch(kept.access_times, key, now)]

\* ModelCache.clear.
ModelCache_clear(mc) == [cache |-> [key \in {} |-> None], access_times |-> <<>>]

\* What time.time() may return next.
Now == {model_time, model_time + 1} \cap (0..MaxModelTime)

ModelGet ==
    /\ \E key \in ModelKeys, now \in Now :
           /\ model_cache' = ModelCache_get(model_cache, key, now).model_cache
           /\ model_time' = now
    /\ UNCHANGED <<callers>>
    /\ UNCHANGED <<rbac_vars, cache_vars, backup_vars>>

ModelPut ==
    /\ \E key \in ModelKeys, value \in ModelValues, now \in Now :
           /\ model_cache' = ModelCache_put(model_cache, key, value, now)
           /\ model_time' = now
    /\ UNCHANGED <<callers>>
    /\ UNCHANGED <<rbac_vars, cache_vars, backup_vars>>

ModelClear ==
    /\ model_cache' = ModelCache_clear(model_cache)
    /\ UNCHANGED <<model_time, callers>>
    /\ UNCHANGED <<rbac_vars, cache_vars, backup_vars>>

ModelCacheNext == ModelGet \/ ModelPut \/ ModelClear

ModelCacheSpecInit ==
    /\ role_permissions = ROLE_PERMISSIONS
    /\ resource_permissions = RESOURCE_PERMISSIONS
    /\ rbac_req = RBACRequest("none", None, None, <<>>, None, None)
    /\ rbac_pc = "idle"
    /\ rbac_result = None
    /\ CacheInit
    /\ BackupInit
    /\ ModelCacheInit
    /\ s3_client = FALSE

SpecModelCache == ModelCacheSpecInit /\ [][ModelCacheNext]_vars

\* The last access time of a cached key.
access_time(mc, key) ==
    mc.access_times[CHOOSE i \in 1..Len(mc.access_times) :
                        mc.access_times[i].key = key].time

\* C29: the cache never holds more than max_size entries, and a step that
\* is not a clear removes an entry only when the cache was full and the step
\* put a key that was not cached; the entry removed is then the only one
\* removed and no entry was accessed longer ago.
C29_LruEviction ==
    [][/\ Cardinality(DOMAIN model_cache'.cache) <= max_size
       /\ \A evicted \in DOMAIN model_cache.cache \ DOMAIN model_cache'.cache :
              model_cache'.cache # ModelCache_clear(model_cache).cache =>
                  /\ Cardinality(DOMAIN model_cache.cache) = max_size
                  /\ DOMAIN model_cache'.cache \ DOMAIN model_cache.cache # {}
                  /\ DOMAIN model_cache.cache \ DOMAIN model_cache'.cache = {evicted}
                  /\ \A key \in DOMAIN model_cache.cache :
                         access_time(model_cache, evicted)
                             <= access_time(model_cache, key)]_vars
====
